---- MODULE Spec2Model ----
(***************************************************************************)
(* Model of the xi-editor core (rust/src/editor.rs): the Editor state      *)
(* machine behind do_rpc, its undo bookkeeping and the pending delta.      *)
(*                                                                         *)
(* The rope, the revision engine and the view live in crates/modules that  *)
(* are not part of the sources at hand; they are modelled from the         *)
(* specification (sections 3, 4.1, 4.2, 4.4) and marked so in the map.     *)
(*                                                                         *)
(* Text is a sequence of one-byte characters ("a", "b", "\n", "\r"): every *)
(* byte is one codepoint; CR LF is one grapheme of two codepoints.         *)
(*                                                                         *)
(* A usize or i64 is kept at its width: four 16-bit limbs, most            *)
(* significant first (an i64 in two's complement), so that casts and       *)
(* subtractions wrap as they do in the binary.                             *)
(***************************************************************************)
EXTENDS Integers, Sequences, FiniteSets, TLC

\* ------------------------------------------------------------------ bounds
MaxLen == 2        \* longest text the enumerated commands may produce
MaxEdits == 2      \* committed deltas per behaviour (caps the id counters)
WarmLen == 19      \* commands of the warm-up session of the second initial state
MaxScript == 4     \* commands per recorded scenario (SpecScenario)
MaxStage == 2      \* staging attempts examined within one call (SpecStage)
MaxK == 3          \* longest undo/redo run examined by the round-trip claims
MaxTabEdits == 3   \* committed deltas per behaviour of the two tabs (SpecTabs)
MaxTabs == 2        \* tabs opened in one behaviour of the stdio loop
MaxLines == 4       \* lines read from stdin in one behaviour
MaxEvictEdits == 3  \* committed deltas per behaviour after the warm-up (SpecEvict)
MaxCrLfLen == 4     \* longest text with CR LF line ends (SpecCrLf)
MaxCrLfEdits == 3   \* committed deltas per behaviour of SpecCrLf

\* ------------------------------------------------------- program constants
FLAG_SELECT == 2
MAX_UNDOS == 20
PRIORITY == 65536  \* 0x10000

None == <<>>
Some(x) == <<x>>
IsSome(o) == o # <<>>
Unwrap(o) == o[1]

\* The element of a one-element set: names an intermediate value.
The(S) == CHOOSE x \in S : TRUE

Min(a, b) == IF a < b THEN a ELSE b
Max(a, b) == IF a > b THEN a ELSE b

NL == "\n"
CR == "\r"

\* ------------------------------------------------------------ usize, isize
\* A 64-bit word as four limbs in base 2^16, most significant first.
Limb == 65536

\* The usize of a small natural number.
usize(n) == <<0, 0, n \div Limb, n % Limb>>

\* The i64 of a small integer, in two's complement: the word of 2^64 + i when
\* i is negative.  A cast between i64 and usize keeps the word.
i64(i) ==
    IF i >= 0 THEN usize(i)
    ELSE [k \in 1..4 |-> (Limb - 1) - usize((0 - i) - 1)[k]]

\* a < b on usize.
usize_lt(a, b) ==
    \E k \in 1..4 : a[k] < b[k] /\ \A j \in 1..(k - 1) : a[j] = b[j]

\* a.wrapping_sub(b): a - b modulo 2^64, limb by limb with borrow.
wrapping_sub(a, b) ==
    LET d4 == a[4] - b[4]
        d3 == a[3] - b[3] - (IF d4 < 0 THEN 1 ELSE 0)
        d2 == a[2] - b[2] - (IF d3 < 0 THEN 1 ELSE 0)
        d1 == a[1] - b[1] - (IF d2 < 0 THEN 1 ELSE 0)
    IN <<d1 % Limb, d2 % Limb, d3 % Limb, d4 % Limb>>

\* `u as isize` is negative: the top bit is set.
isize_negative(u) == u[1] >= Limb \div 2

\* `u as isize` wraps when 2 is subtracted: it is isize::MIN or isize::MIN + 1.
isize_sub2_overflows(u) == u[1] = Limb \div 2 /\ u[2] = 0 /\ u[3] = 0 /\ u[4] < 2

\* max(u as isize - 2, 1) where the subtraction does not overflow: Some(n), or
\* None when it is more than the largest number of lines a text can have
\* (2^31 - 1).
page_lines(u) ==
    IF isize_negative(u) THEN Some(1)
    ELSE IF u[1] # 0 \/ u[2] # 0 THEN None
    ELSE IF u[3] = 0 THEN Some(Max(u[4] - 2, 1))
    ELSE IF u[3] < Limb \div 2 \/ (u[3] = Limb \div 2 /\ u[4] < 2)
    THEN Some((u[3] - 1) * Limb + (Limb - 2) + u[4])
    ELSE None

Chars == {"a", "b", NL}

\* ------------------------------------------------------------------- Rope
\* text.len()
RopeLen(t) == Len(t)

\* text.slice_to_string(start, end): the bytes of [start, end)
slice_to_string(t, start, end) == SubSeq(t, Min(start, Len(t)) + 1, Min(end, Len(t)))

\* Boundary queries return an Option, None at the document ends.  Every byte
\* of the alphabet is one code point; CR LF is one grapheme of two code points,
\* every other code point a grapheme of its own.
next_grapheme_offset(t, off) ==
    IF off >= Len(t) THEN None
    ELSE IF t[off + 1] = CR /\ off + 2 <= Len(t) /\ t[off + 2] = NL THEN Some(off + 2)
    ELSE Some(off + 1)
prev_grapheme_offset(t, off) ==
    IF off <= 0 THEN None
    ELSE IF off >= 2 /\ off <= Len(t) /\ t[off] = NL /\ t[off - 1] = CR THEN Some(off - 2)
    ELSE Some(off - 1)
prev_codepoint_offset(t, off) == IF off > 0 THEN Some(off - 1) ELSE None

\* ------------------------------------------------------------------- View
\* Number of newlines in t[0, off): the line that offset off is on.
line_of_offset(t, off) == Cardinality({i \in 1..Min(off, Len(t)) : t[i] = NL})

\* Number of the last line of t.
n_lines(t) == line_of_offset(t, Len(t))

\* Offset of the first byte of a line; the document end for a line past the last.
offset_of_line(t, line) ==
    IF line = 0 THEN 0
    ELSE IF line > n_lines(t) THEN Len(t)
    ELSE CHOOSE off \in 1..Len(t) : t[off] = NL /\ line_of_offset(t, off) = line

\* Offset of the end of a line: before its newline, or the document end.
end_of_line(t, line) ==
    IF line >= n_lines(t) THEN Len(t) ELSE offset_of_line(t, line + 1) - 1

offset_to_line_col(t, off) ==
    <<line_of_offset(t, off), off - offset_of_line(t, line_of_offset(t, off))>>

\* (line, col) to offset; a column past the end of the line snaps to the line end.
line_col_to_offset(t, line, col) ==
    IF line > n_lines(t) THEN Len(t)
    ELSE Min(offset_of_line(t, line) + col, end_of_line(t, line))

\* Move line_delta lines from sel_end, at the nearest column <= col; clamp at
\* the document ends.
vertical_motion(t, sel_end, line_delta, col) ==
    LET from == line_of_offset(t, sel_end) IN
    IF line_delta < 0 - from THEN 0
    ELSE IF line_delta > n_lines(t) - from THEN Len(t)
    ELSE line_col_to_offset(t, from + line_delta, col)

\* vertical_motion by scroll lines up or down, scroll as page_lines gives it:
\* more lines than a text can have reach the document end.
page_motion(t, sel_end, scroll, up, col) ==
    IF IsSome(scroll)
    THEN vertical_motion(t, sel_end, IF up THEN 0 - Unwrap(scroll) ELSE Unwrap(scroll), col)
    ELSE IF up THEN 0 ELSE Len(t)

\* ----------------------------------------------------------------- Engine
\* The engine keeps every byte ever inserted and not yet collected (union), each
\* tagged with the revision that inserted it (0: the initial contents, or a
\* collected revision whose effect is permanent) and the revisions that deleted
\* it; revs is the history, undone the set of undo groups masked off.
Engine_new(initial) ==
    [union |-> [i \in 1..Len(initial) |-> [ch |-> initial[i], ins |-> 0, dels |-> {}]],
     revs |-> <<>>,
     undone |-> {},
     rev_id_counter |-> 0]

\* The undo groups that name at least one revision of the history.
GroupsOf(eng) == {eng.revs[i].undo_group : i \in 1..Len(eng.revs)}

\* A revision takes part in the head when its undo group is not undone.
RevEnabled(eng, rid) ==
    \/ rid = 0
    \/ \E i \in 1..Len(eng.revs) :
          eng.revs[i].rev_id = rid /\ eng.revs[i].undo_group \notin eng.undone

\* A byte of the union is in the head when the revision that inserted it is
\* enabled and no enabled revision deletes it.
Visible(eng, c) == RevEnabled(eng, c.ins) /\ \A r \in c.dels : ~RevEnabled(eng, r)

\* Indices into union of the bytes of the head, in order.
VisibleIdx(eng) ==
    LET Test(i) == Visible(eng, eng.union[i]) IN
    SelectSeq([i \in 1..Len(eng.union) |-> i], Test)

\* The head: the enabled revisions applied in order.
get_head(eng) ==
    LET idx == VisibleIdx(eng) IN [i \in 1..Len(idx) |-> eng.union[idx[i]].ch]

get_head_rev_id(eng) == eng.rev_id_counter

\* Delta::simple_edit(iv, new, base_len): replace [start, end) by new.
simple_edit(start, end, new, base_len) ==
    [start |-> start, end |-> end, new |-> new, base_len |-> base_len]

\* A delta whose interval leaves the base is malformed (a programmer error).
Malformed(delta) == delta.start > delta.end \/ delta.end > delta.base_len

\* Append a revision: the bytes of [start, end) of the head are marked deleted
\* by it, the new bytes enter the union after the head's byte start - 1.
edit_rev(eng, priority, undo_group, base_rev, delta) ==
    LET idx == VisibleIdx(eng)
        rid == eng.rev_id_counter + 1
        dead == {idx[i] : i \in (delta.start + 1)..delta.end}
        at == IF delta.start = 0 THEN 0 ELSE idx[delta.start]
        marked == [i \in 1..Len(eng.union) |->
                     IF i \in dead
                     THEN [eng.union[i] EXCEPT !.dels = @ \cup {rid}]
                     ELSE eng.union[i]]
        fresh == [i \in 1..Len(delta.new) |->
                     [ch |-> delta.new[i], ins |-> rid, dels |-> {}]]
    IN [eng EXCEPT
          !.union = SubSeq(marked, 1, at) \o fresh \o SubSeq(marked, at + 1, Len(marked)),
          !.revs = Append(@, [rev_id |-> rid, undo_group |-> undo_group,
                              priority |-> priority]),
          !.rev_id_counter = rid]

\* Replace the set of undone groups; the head follows.
undo(eng, groups) == [eng EXCEPT !.undone = groups]

\* Discard the revisions of the given groups for good, the head unchanged: an
\* undone revision's bytes leave the union, an applied revision's insertions
\* become permanent and the bytes it deleted leave the union.
gc(eng, gc_groups) ==
    LET gone == {eng.revs[i].rev_id : i \in {j \in 1..Len(eng.revs) :
                                               eng.revs[j].undo_group \in gc_groups}}
        goneOff == {r \in gone : ~RevEnabled(eng, r)}
        goneOn == gone \ goneOff
        Keep(c) == c.ins \notin goneOff /\ c.dels \cap goneOn = {}
        kept == SelectSeq(eng.union, Keep)
        KeepRev(r) == r.rev_id \notin gone
    IN [eng EXCEPT
          !.union = [i \in 1..Len(kept) |->
                       [ch |-> kept[i].ch,
                        ins |-> IF kept[i].ins \in goneOn THEN 0 ELSE kept[i].ins,
                        dels |-> kept[i].dels \ gone]],
          !.revs = SelectSeq(@, KeepRev),
          !.undone = @ \ gc_groups]

\* ----------------------------------------------------------------- Editor
Other == "Other"
Select == "Select"
InsertChars == "InsertChars"
Delete == "Delete"

\* Editor::new.  debug_assertions is the build configuration the binary was
\* compiled with (it decides whether debug_assert! evaluates its argument);
\* abort records that a command panicked.
Editor_new(debug) ==
    [text |-> <<>>,
     sel_start |-> 0, sel_end |-> 0, scroll_height |-> usize(10),
     dirty |-> FALSE,
     delta |-> None,
     engine |-> Engine_new(<<>>),
     undo_group_id |-> 0,
     live_undos |-> <<>>,
     cur_undo |-> 0,
     undos |-> {},
     gc_undos |-> {},
     last_edit_type |-> Other,
     this_edit_type |-> Other,
     new_cursor |-> None,
     scroll_to |-> Some(0),
     col |-> 0,
     debug_assertions |-> debug,
     abort |-> FALSE]

\* A panic (unimplemented!, a failed assertion, a malformed delta in the engine).
Panic(e) == [e EXCEPT !.abort = TRUE]

sel_min(e) == Min(e.sel_start, e.sel_end)
sel_max(e) == Max(e.sel_start, e.sel_end)

set_cursor(e, offset, hard) ==
    IF e.abort THEN e ELSE
    [e EXCEPT
       !.sel_start = IF e.this_edit_type # Select THEN offset ELSE @,
       !.sel_end = offset,
       !.col = IF hard THEN offset_to_line_col(e.text, offset)[2] ELSE @,
       !.scroll_to = IF hard THEN Some(offset) ELSE @,
       !.dirty = TRUE]

\* add_delta without the early return of lines 130-133: a later staging
\* replaces the pending delta.
add_delta_overwrites(e, start, end, new, new_cursor) ==
    IF e.abort THEN e ELSE
    [e EXCEPT !.delta = Some(simple_edit(start, end, new, RopeLen(e.text))),
              !.new_cursor = Some(new_cursor)]

add_delta(e, start, end, new, new_cursor) ==
    IF e.abort THEN e ELSE
    IF IsSome(e.delta) THEN e
    ELSE [e EXCEPT !.delta = Some(simple_edit(start, end, new, RopeLen(e.text))),
                   !.new_cursor = Some(new_cursor)]

insert(e, s) == add_delta(e, sel_min(e), sel_max(e), s, sel_min(e) + Len(s))

update_after_revision(e) ==
    IF e.abort THEN e ELSE
    [e EXCEPT !.text = get_head(e.engine), !.dirty = TRUE]

\* update_undos without line 173: the engine is told the undone groups but the
\* text is not read back.
update_undos_stale(e) ==
    IF e.abort THEN e ELSE
    [e EXCEPT !.engine = undo(e.engine, e.undos)]

update_undos(e) ==
    IF e.abort THEN e ELSE
    update_after_revision([e EXCEPT !.engine = undo(e.engine, e.undos)])

\* commit_delta, lines 144-147: does this commit reuse the top live undo group?
coalesces(e) ==
    /\ e.this_edit_type = e.last_edit_type
    /\ e.this_edit_type # Other
    /\ e.this_edit_type # Select
    /\ e.live_undos # <<>>

\* Lines 151-160 without lines 152-153: the redo tail stays in live_undos.
fresh_group_keeps_tail(e) ==
    LET pushed == Append(e.live_undos, e.undo_group_id)
    IN IF Len(pushed) <= MAX_UNDOS
       THEN [e EXCEPT !.live_undos = pushed,
                      !.cur_undo = @ + 1,
                      !.undo_group_id = @ + 1]
       ELSE [e EXCEPT !.gc_undos = @ \cup {pushed[1]},
                      !.live_undos = Tail(pushed),
                      !.undo_group_id = @ + 1]

\* Lines 151-160 without the eviction of lines 157-159.
fresh_group_no_evict(e) ==
    LET tail == {e.live_undos[i] : i \in (e.cur_undo + 1)..Len(e.live_undos)}
        pushed == Append(SubSeq(e.live_undos, 1, e.cur_undo), e.undo_group_id)
    IN [e EXCEPT !.gc_undos = @ \cup tail,
                 !.live_undos = pushed,
                 !.cur_undo = @ + 1,
                 !.undo_group_id = @ + 1]

\* Lines 151-160 without line 153: the redo tail goes to gc_undos and stays in
\* live_undos.
fresh_group_no_truncate(e) ==
    LET tail == {e.live_undos[i] : i \in (e.cur_undo + 1)..Len(e.live_undos)}
        pushed == Append(e.live_undos, e.undo_group_id)
    IN IF Len(pushed) <= MAX_UNDOS
       THEN [e EXCEPT !.gc_undos = @ \cup tail,
                      !.live_undos = pushed,
                      !.cur_undo = @ + 1,
                      !.undo_group_id = @ + 1]
       ELSE [e EXCEPT !.gc_undos = @ \cup tail \cup {pushed[1]},
                      !.live_undos = Tail(pushed),
                      !.undo_group_id = @ + 1]

\* Lines 151-160 without the insertion of line 158: the oldest group leaves
\* live_undos and is not handed to gc.
fresh_group_forgets_evicted(e) ==
    LET tail == {e.live_undos[i] : i \in (e.cur_undo + 1)..Len(e.live_undos)}
        pushed == Append(SubSeq(e.live_undos, 1, e.cur_undo), e.undo_group_id)
    IN IF Len(pushed) <= MAX_UNDOS
       THEN [e EXCEPT !.gc_undos = @ \cup tail,
                      !.live_undos = pushed,
                      !.cur_undo = @ + 1,
                      !.undo_group_id = @ + 1]
       ELSE [e EXCEPT !.gc_undos = @ \cup tail,
                      !.live_undos = Tail(pushed),
                      !.undo_group_id = @ + 1]

\* commit_delta, lines 151-160: allocate a fresh undo group.
fresh_group(e) ==
    LET tail == {e.live_undos[i] : i \in (e.cur_undo + 1)..Len(e.live_undos)}
        pushed == Append(SubSeq(e.live_undos, 1, e.cur_undo), e.undo_group_id)
    IN IF Len(pushed) <= MAX_UNDOS
       THEN [e EXCEPT !.gc_undos = @ \cup tail,
                      !.live_undos = pushed,
                      !.cur_undo = @ + 1,
                      !.undo_group_id = @ + 1]
       ELSE [e EXCEPT !.gc_undos = @ \cup tail \cup {pushed[1]},
                      !.live_undos = Tail(pushed),
                      !.undo_group_id = @ + 1]

commit_delta(e) ==
    IF e.abort THEN e ELSE
    IF ~IsSome(e.delta) THEN e
    ELSE LET delta == Unwrap(e.delta)
             head_rev_id == get_head_rev_id(e.engine)
             undo_group == IF coalesces(e)
                           THEN e.live_undos[Len(e.live_undos)]
                           ELSE e.undo_group_id
             e1 == IF coalesces(e) THEN e ELSE fresh_group(e)
         IN IF Malformed(delta) THEN Panic(e)
            ELSE LET e2 == update_after_revision(
                             [e1 EXCEPT !.delta = None,
                                        !.engine = edit_rev(e.engine, PRIORITY, undo_group,
                                                            head_rev_id, delta)])
                 IN IF IsSome(e2.new_cursor)
                    THEN set_cursor([e2 EXCEPT !.new_cursor = None],
                                    Unwrap(e2.new_cursor), TRUE)
                    ELSE e2

\* gc_undos without line 188: the swept groups stay in undos.
gc_undos_keeps_undos(e) ==
    IF e.abort THEN e ELSE
    IF e.gc_undos # {}
    THEN [e EXCEPT !.engine = gc(e.engine, e.gc_undos),
                   !.gc_undos = {}]
    ELSE e

gc_undos(e) ==
    IF e.abort THEN e ELSE
    IF e.gc_undos # {}
    THEN [e EXCEPT !.engine = gc(e.engine, e.gc_undos),
                   !.undos = @ \ e.gc_undos,
                   !.gc_undos = {}]
    ELSE e

reset_contents(e, new_contents) ==
    IF e.abort THEN e ELSE
    set_cursor([e EXCEPT !.engine = Engine_new(new_contents),
                         !.text = new_contents,
                         !.dirty = TRUE],
               0, TRUE)

\* render without line 205: dirty stays set after the update is sent.
render_keeps_dirty(e) ==
    IF e.abort THEN e ELSE
    IF e.dirty THEN [e EXCEPT !.scroll_to = None] ELSE e

\* render if needed, sending to ui
render(e) ==
    IF e.abort THEN e ELSE
    IF e.dirty THEN [e EXCEPT !.dirty = FALSE, !.scroll_to = None] ELSE e

delete(e) ==
    IF e.abort THEN e ELSE
    LET bsp_pos == prev_codepoint_offset(e.text, e.sel_end)
        start == IF e.sel_start # e.sel_end THEN sel_min(e)
                 ELSE IF IsSome(bsp_pos) THEN Unwrap(bsp_pos)
                 ELSE sel_max(e)
    IN IF start < sel_max(e)
       THEN add_delta([e EXCEPT !.this_edit_type = Delete], start, sel_max(e), <<>>, start)
       ELSE e

delete_forward(e) ==
    IF e.abort THEN e ELSE
    IF e.sel_start = e.sel_end
    THEN LET pos == next_grapheme_offset(e.text, e.sel_end) IN
         IF IsSome(pos) THEN delete(set_cursor(e, Unwrap(pos), TRUE)) ELSE e
    ELSE delete(e)

delete_backward(e) == delete(e)

insert_newline(e) ==
    IF e.abort THEN e ELSE insert([e EXCEPT !.this_edit_type = InsertChars], <<NL>>)

\* modify_selection without line 260: the edit type is not set to Select.
modify_selection_no_select(e) == e

modify_selection(e) == [e EXCEPT !.this_edit_type = Select]

\* The prologue of every motion: if (flags & FLAG_SELECT) != 0 { modify_selection() }
with_flags(e, flags) ==
    IF (flags \div FLAG_SELECT) % 2 = 1 THEN modify_selection(e) ELSE e

move_up(e0, flags) ==
    IF e0.abort THEN e0 ELSE
    LET e == with_flags(e0, flags)
        old_offset == e.sel_end
        offset == vertical_motion(e.text, e.sel_end, -1, e.col)
    IN [set_cursor(e, offset, old_offset = offset) EXCEPT !.scroll_to = Some(offset)]

\* move_down with set_cursor(offset, true) at line 281.
move_down_hard(e0, flags) ==
    IF e0.abort THEN e0 ELSE
    LET e == with_flags(e0, flags)
        offset == vertical_motion(e.text, e.sel_end, 1, e.col)
    IN [set_cursor(e, offset, TRUE) EXCEPT !.scroll_to = Some(offset)]

move_down(e0, flags) ==
    IF e0.abort THEN e0 ELSE
    LET e == with_flags(e0, flags)
        old_offset == e.sel_end
        offset == vertical_motion(e.text, e.sel_end, 1, e.col)
    IN [set_cursor(e, offset, old_offset = offset) EXCEPT !.scroll_to = Some(offset)]

\* move_left without the "selecting cancel" branch of lines 290-296.
move_left_no_cancel(e0, flags) ==
    IF e0.abort THEN e0 ELSE
    LET e == with_flags(e0, flags)
        prev == prev_grapheme_offset(e.text, e.sel_end)
    IN IF IsSome(prev) THEN set_cursor(e, Unwrap(prev), TRUE)
       ELSE [e EXCEPT !.col = 0]

move_left(e0, flags) ==
    IF e0.abort THEN e0 ELSE
    LET e == with_flags(e0, flags)
        prev == prev_grapheme_offset(e.text, e.sel_end)
    IN IF e.sel_start # e.sel_end /\ e.this_edit_type # Select
       THEN set_cursor(e, sel_min(e), TRUE)
       ELSE IF IsSome(prev) THEN set_cursor(e, Unwrap(prev), TRUE)
       ELSE [e EXCEPT !.col = 0]

move_to_left_end_of_line(e0, flags) ==
    IF e0.abort THEN e0 ELSE
    LET e == with_flags(e0, flags)
        line_col == offset_to_line_col(e.text, e.sel_end)
        offset == line_col_to_offset(e.text, line_col[1], 0)
    IN set_cursor(e, offset, TRUE)

move_right(e0, flags) ==
    IF e0.abort THEN e0 ELSE
    LET e == with_flags(e0, flags)
        next == next_grapheme_offset(e.text, e.sel_end)
    IN IF e.sel_start # e.sel_end /\ e.this_edit_type # Select
       THEN set_cursor(e, sel_max(e), TRUE)
       ELSE IF IsSome(next) THEN set_cursor(e, Unwrap(next), TRUE)
       ELSE [e EXCEPT !.col = offset_to_line_col(e.text, e.sel_end)[2]]

move_to_right_end_of_line(e0, flags) ==
    IF e0.abort THEN e0 ELSE
    LET e == with_flags(e0, flags)
        line_col == offset_to_line_col(e.text, e.sel_end)
        next_line_offset == line_col_to_offset(e.text, line_col[1] + 1, 0)
        prev == prev_grapheme_offset(e.text, next_line_offset)
        offset == IF RopeLen(e.text) > next_line_offset /\ IsSome(prev)
                  THEN Unwrap(prev)
                  ELSE RopeLen(e.text)
    IN set_cursor(e, offset, TRUE)

move_to_beginning_of_document(e0, flags) ==
    IF e0.abort THEN e0 ELSE set_cursor(with_flags(e0, flags), 0, TRUE)

move_to_end_of_document(e0, flags) ==
    IF e0.abort THEN e0 ELSE set_cursor(with_flags(e0, flags), RopeLen(e0.text), TRUE)

delete_to_beginning_of_line(e) == delete(move_to_left_end_of_line(e, FLAG_SELECT))

\* Both page motions, scroll being max(h - 2, 1) lines, up or down.
scroll_page(e0, flags, scroll, up) ==
    IF e0.abort THEN e0 ELSE
    LET e == with_flags(e0, flags)
        old_offset == e.sel_end
        offset == page_motion(e.text, e.sel_end, scroll, up, e.col)
        e1 == set_cursor(e, offset, old_offset = offset)
        scroll_offset == page_motion(e1.text, e1.sel_end, scroll, up, e1.col)
    IN [e1 EXCEPT !.scroll_to = Some(scroll_offset)]

\* scroll_height() as isize - 2 (lines 418 and 431): an overflow panics in a
\* build with overflow checks and wraps to isize::MAX - 1 or isize::MAX
\* without.
scroll_page_up(e, flags) ==
    IF e.abort THEN e
    ELSE IF isize_sub2_overflows(e.scroll_height)
    THEN (IF e.debug_assertions THEN Panic(e) ELSE scroll_page(e, flags, None, TRUE))
    ELSE scroll_page(e, flags, page_lines(e.scroll_height), TRUE)

scroll_page_down(e, flags) ==
    IF e.abort THEN e
    ELSE IF isize_sub2_overflows(e.scroll_height)
    THEN (IF e.debug_assertions THEN Panic(e) ELSE scroll_page(e, flags, None, FALSE))
    ELSE scroll_page(e, flags, page_lines(e.scroll_height), FALSE)

debug_rewrap(e) == IF e.abort THEN e ELSE [e EXCEPT !.dirty = TRUE]

debug_test_fg_spans(e) == IF e.abort THEN e ELSE [e EXCEPT !.dirty = TRUE]

\* The special values of a key command's chars.
KEY_RETURN == <<"\r">>
KEY_BACKSPACE == <<"\\x7f">>
KEY_UP == <<"\\u{F700}">>
KEY_DOWN == <<"\\u{F701}">>
KEY_LEFT == <<"\\u{F702}">>
KEY_RIGHT == <<"\\u{F703}">>
KEY_PAGE_UP == <<"\\u{F72C}">>
KEY_PAGE_DOWN == <<"\\u{F72D}">>
KEY_F1 == <<"\\u{F704}">>
KEY_F2 == <<"\\u{F705}">>

do_key(e, chars, flags) ==
    IF e.abort THEN e
    ELSE IF chars = KEY_RETURN THEN insert_newline(e)
    ELSE IF chars = KEY_BACKSPACE THEN delete_backward(e)
    ELSE IF chars = KEY_UP THEN move_up(e, flags)
    ELSE IF chars = KEY_DOWN THEN move_down(e, flags)
    ELSE IF chars = KEY_LEFT THEN move_left(e, flags)
    ELSE IF chars = KEY_RIGHT THEN move_right(e, flags)
    ELSE IF chars = KEY_PAGE_UP THEN scroll_page_up(e, flags)
    ELSE IF chars = KEY_PAGE_DOWN THEN scroll_page_down(e, flags)
    ELSE IF chars = KEY_F1 THEN debug_rewrap(e)
    ELSE IF chars = KEY_F2 THEN debug_test_fg_spans(e)
    ELSE insert(e, chars)

do_insert(e, chars) ==
    IF e.abort THEN e ELSE insert([e EXCEPT !.this_edit_type = InsertChars], chars)

\* The file system when the process starts.  For a path, File::open succeeds
\* or fails (opens), read_to_string gives its contents or fails on bytes that
\* are not UTF-8 (reads), File::create succeeds or fails (creates), and
\* write_all fails once room bytes are written (None: it does not fail):
\* missing lies in a directory that does not exist, binary holds bytes that
\* are not UTF-8 where one more byte can be stored, notes is a text file.
Files ==
    [missing |-> [contents |-> <<>>, creates |-> FALSE, opens |-> FALSE, reads |-> FALSE,
                  room |-> None],
     binary |-> [contents |-> <<>>, creates |-> TRUE, opens |-> TRUE, reads |-> FALSE,
                 room |-> Some(1)],
     notes |-> [contents |-> <<"b", NL>>, creates |-> TRUE, opens |-> TRUE, reads |-> TRUE,
                room |-> None]]

\* The file system as the process has left it so far.
VARIABLE files

\* do_open resetting to an empty document when the file cannot be read.
do_open_clears(e, path) ==
    IF e.abort THEN e ELSE
    IF files[path].opens /\ files[path].reads
    THEN reset_contents(e, files[path].contents)
    ELSE reset_contents(e, <<>>)

do_open(e, path) ==
    IF e.abort THEN e ELSE
    IF files[path].opens /\ files[path].reads
    THEN reset_contents(e, files[path].contents)
    ELSE e

\* The bytes of text that reach a file with that much room before write_all
\* fails.
write_all(text, room) ==
    IF IsSome(room) THEN SubSeq(text, 1, Min(Len(text), Unwrap(room))) ELSE text

\* do_save: the editor and the file system afterwards.  File::create empties
\* the file (or makes it) and the chunks of the text are written to it, up to
\* the write that fails; when create fails nothing is written.  The editor is
\* left alone.
do_save(e, path) ==
    IF e.abort \/ ~files[path].creates THEN [ed |-> e, files |-> files]
    ELSE [ed |-> e,
          files |-> [files EXCEPT ![path] = [contents |-> write_all(e.text, files[path].room),
                                             creates |-> TRUE, opens |-> TRUE,
                                             reads |-> TRUE, room |-> files[path].room]]]

\* View::set_scroll(first, last): the viewport is last - first lines high, a
\* usize subtraction.  When last < first it panics in a build with overflow
\* checks and wraps modulo 2^64 without.
set_scroll(e, first, last) ==
    IF usize_lt(last, first) /\ e.debug_assertions THEN Panic(e)
    ELSE [e EXCEPT !.scroll_height = wrapping_sub(last, first)]

\* view.set_scroll(max(first, 0) as usize, last as usize), first and last
\* being i64 words.
do_scroll(e, first, last) ==
    IF e.abort THEN e
    ELSE set_scroll(e, IF isize_negative(first) THEN usize(0) ELSE first, last)

do_click(e, line, col, flags, click_count) ==
    IF e.abort THEN e ELSE
    LET offset == line_col_to_offset(e.text, line, col) IN
    set_cursor(with_flags(e, flags), offset, TRUE)

do_drag(e, line, col, flags) ==
    IF e.abort THEN e ELSE
    LET offset == line_col_to_offset(e.text, line, col) IN
    set_cursor(modify_selection(e), offset, TRUE)

\* do_render_lines without line 534: this_edit_type stays Other.
do_render_lines_breaks(e, first_line, last_line) == e

do_render_lines(e, first_line, last_line) ==
    IF e.abort THEN e ELSE [e EXCEPT !.this_edit_type = e.last_edit_type]

do_cut(e) ==
    IF e.abort THEN e ELSE
    IF sel_min(e) # sel_max(e)
    THEN add_delta(e, sel_min(e), sel_max(e), <<>>, sel_min(e))
    ELSE e

do_copy(e) == e

\* do_undo, line 573: debug_assert!(self.undos.insert(g)).  The macro evaluates
\* its argument only in a build with debug assertions; there the insertion is
\* made and must report a new element, elsewhere nothing is done.
debug_assert_insert(e, g) ==
    IF ~e.debug_assertions THEN e
    ELSE IF g \in e.undos THEN Panic(e)
    ELSE [e EXCEPT !.undos = @ \cup {g}]

\* do_redo, line 580: debug_assert!(self.undos.remove(&g)), likewise.
debug_assert_remove(e, g) ==
    IF ~e.debug_assertions THEN e
    ELSE IF g \notin e.undos THEN Panic(e)
    ELSE [e EXCEPT !.undos = @ \ {g}]

\* do_undo that, like do_render_lines, keeps the edit type of the previous
\* command.
do_undo_keeps_edit_type(e) ==
    IF e.abort THEN e ELSE
    IF e.cur_undo > 0
    THEN LET e1 == [e EXCEPT !.cur_undo = @ - 1, !.this_edit_type = e.last_edit_type] IN
         update_undos(debug_assert_insert(e1, e1.live_undos[e1.cur_undo + 1]))
    ELSE [e EXCEPT !.this_edit_type = e.last_edit_type]

do_undo(e) ==
    IF e.abort THEN e ELSE
    IF e.cur_undo > 0
    THEN LET e1 == [e EXCEPT !.cur_undo = @ - 1] IN
         update_undos(debug_assert_insert(e1, e1.live_undos[e1.cur_undo + 1]))
    ELSE e

\* do_redo without line 580: the group stays in undos.
do_redo_keeps_undone(e) ==
    IF e.abort THEN e ELSE
    IF e.cur_undo < Len(e.live_undos)
    THEN update_undos([e EXCEPT !.cur_undo = @ + 1])
    ELSE e

do_redo(e) ==
    IF e.abort THEN e ELSE
    IF e.cur_undo < Len(e.live_undos)
    THEN LET e1 == debug_assert_remove(e, e.live_undos[e.cur_undo + 1]) IN
         update_undos(IF e1.abort THEN e1 ELSE [e1 EXCEPT !.cur_undo = @ + 1])
    ELSE e

do_transpose(e) ==
    IF e.abort THEN e ELSE
    LET end_opt == next_grapheme_offset(e.text, e.sel_end)
        start_opt == prev_grapheme_offset(e.text, e.sel_end)
        end == IF IsSome(end_opt) THEN Unwrap(end_opt) ELSE e.sel_end
        at_end == ~IsSome(end_opt) /\ IsSome(start_opt)
        middle == IF at_end THEN Unwrap(start_opt) ELSE e.sel_end
        before == prev_grapheme_offset(e.text, middle)
        start == IF at_end
                 THEN (IF IsSome(before) THEN Unwrap(before) ELSE middle)
                 ELSE (IF IsSome(start_opt) THEN Unwrap(start_opt) ELSE e.sel_end)
        swapped == slice_to_string(e.text, middle, end) \o
                   slice_to_string(e.text, start, middle)
    IN add_delta(e, start, end, swapped, end)

\* What Cursor::next::<LinesMetric>() answers when no newline follows the
\* cursor and the cursor is not at the end of the text: None, or the end of
\* the text.  The rope decides; both are kept.
CursorNextAtEnd == {"none", "len"}

\* Cursor::new(&rope, current).next::<LinesMetric>(): the offset just after
\* the next newline.
Cursor_next(t, current, next_at_end) ==
    LET ends == {i \in (current + 1)..Len(t) : t[i] = NL} IN
    IF current >= Len(t) THEN None
    ELSE IF ends # {} THEN Some(The({i \in ends : \A j \in ends : i <= j}))
    ELSE IF next_at_end = "len" THEN Some(Len(t))
    ELSE None

\* cursor.is_boundary::<LinesMetric>(): the byte before the offset is a newline.
Cursor_is_boundary(t, offset) == offset > 0 /\ offset <= Len(t) /\ t[offset] = NL

\* cursor_end_offset, lines 374-390: the next line boundary stepped back one
\* grapheme, the offset next() gives when that is no line boundary, sel_max
\* when next() gives none.
cursor_end_offset(e, next_at_end) ==
    LET current == sel_max(e)
        next == Cursor_next(e.text, current, next_at_end)
    IN IF ~IsSome(next) THEN current
       ELSE LET offset == Unwrap(next)
                new == prev_grapheme_offset(e.text, offset)
            IN IF Cursor_is_boundary(e.text, offset)
               THEN (IF IsSome(new) THEN Unwrap(new) ELSE offset)
               ELSE offset

\* delete_to_end_of_paragraph, lines 606-625: the editor and the kill ring
\* afterwards.  The text from sel_max to cursor_end_offset is removed, or the
\* grapheme after sel_end when the two are equal; what was removed (nothing,
\* when there is no such grapheme) replaces the kill ring.
delete_to_end_of_paragraph(e, kill_ring, next_at_end) ==
    IF e.abort THEN [ed |-> e, kill_ring |-> kill_ring] ELSE
    LET current == sel_max(e)
        offset == cursor_end_offset(e, next_at_end)
        grapheme_offset == next_grapheme_offset(e.text, e.sel_end)
    IN IF current # offset
       THEN [ed |-> add_delta(e, current, offset, <<>>, current),
             kill_ring |-> slice_to_string(e.text, current, offset)]
       ELSE IF IsSome(grapheme_offset)
       THEN [ed |-> add_delta(e, current, Unwrap(grapheme_offset), <<>>, current),
             kill_ring |-> slice_to_string(e.text, current, Unwrap(grapheme_offset))]
       ELSE [ed |-> e, kill_ring |-> <<>>]

yank(e, kill_ring) == insert(e, kill_ring)

do_move(e, motion, modify) ==
    LET flags == IF modify THEN FLAG_SELECT ELSE 0 IN
    CASE motion = "prev_char" -> move_left(e, flags)
      [] motion = "next_char" -> move_right(e, flags)
      [] motion = "prev_line" -> move_up(e, flags)
      [] motion = "next_line" -> move_down(e, flags)
      [] motion = "start_of_line" -> move_to_left_end_of_line(e, flags)
      [] motion = "start_of_document" -> move_to_beginning_of_document(e, flags)
      [] motion = "end_of_line" -> move_to_right_end_of_line(e, flags)
      [] motion = "end_of_document" -> move_to_end_of_document(e, flags)

\* The motions without an arm of their own are unimplemented!(): a panic.
do_delete(e, motion) ==
    CASE motion = "prev_char" -> delete_backward(e)
      [] motion = "next_char" -> delete_forward(e)
      [] motion = "start_of_line" -> delete_to_beginning_of_line(e)
      [] OTHER -> Panic(e)

\* ---------------------------------------------------------------- commands
\* An EditCommand: op names the variant, the other fields its parameters.
Cmd(name) == [op |-> name, chars |-> <<>>, flags |-> 0, motion |-> "", modify |-> FALSE,
            path |-> "", first_line |-> 0, last_line |-> 0,
            first |-> usize(0), last |-> usize(0), line |-> 0, column |-> 0]
RenderLines(first_line, last_line) ==
    [Cmd("render_lines") EXCEPT !.first_line = first_line, !.last_line = last_line]
Key(chars, flags) == [Cmd("key") EXCEPT !.chars = chars, !.flags = flags]
Insert(chars) == [Cmd("insert") EXCEPT !.chars = chars]
Move(motion, modify) == [Cmd("move") EXCEPT !.motion = motion, !.modify = modify]
DeleteCmd(motion) == [Cmd("delete") EXCEPT !.motion = motion]
Open(path) == [Cmd("open") EXCEPT !.path = path]
Save(path) == [Cmd("save") EXCEPT !.path = path]
Scroll(first, last) == [Cmd("scroll") EXCEPT !.first = first, !.last = last]
Click(line, column, flags) ==
    [Cmd("click") EXCEPT !.line = line, !.column = column, !.flags = flags]
Drag(line, column, flags) ==
    [Cmd("drag") EXCEPT !.line = line, !.column = column, !.flags = flags]

\* do_rpc, lines 675-705: the dispatch on the command.
dispatch(e, cmd, kill_ring) ==
    CASE cmd.op = "render_lines" -> do_render_lines(e, cmd.first_line, cmd.last_line)
      [] cmd.op = "key" -> do_key(e, cmd.chars, cmd.flags)
      [] cmd.op = "insert" -> do_insert(e, cmd.chars)
      [] cmd.op = "insert_newline" -> insert_newline(e)
      [] cmd.op = "move" -> do_move(e, cmd.motion, cmd.modify)
      [] cmd.op = "delete" -> do_delete(e, cmd.motion)
      [] cmd.op = "scroll_page_up" -> scroll_page_up(e, 0)
      [] cmd.op = "page_up_and_modify_selection" -> scroll_page_up(e, FLAG_SELECT)
      [] cmd.op = "scroll_page_down" -> scroll_page_down(e, 0)
      [] cmd.op = "page_down_and_modify_selection" -> scroll_page_down(e, FLAG_SELECT)
      [] cmd.op = "open" -> do_open(e, cmd.path)
      [] cmd.op = "save" -> do_save(e, cmd.path).ed
      [] cmd.op = "scroll" -> do_scroll(e, cmd.first, cmd.last)
      [] cmd.op = "yank" -> yank(e, kill_ring)
      [] cmd.op = "transpose" -> do_transpose(e)
      [] cmd.op = "click" -> do_click(e, cmd.line, cmd.column, cmd.flags, 1)
      [] cmd.op = "drag" -> do_drag(e, cmd.line, cmd.column, cmd.flags)
      [] cmd.op = "undo" -> do_undo(e)
      [] cmd.op = "redo" -> do_redo(e)
      [] cmd.op = "cut" -> do_cut(e)
      [] cmd.op = "copy" -> do_copy(e)
      [] cmd.op = "debug_rewrap" -> debug_rewrap(e)
      [] cmd.op = "debug_test_fg_spans" -> debug_test_fg_spans(e)

\* do_rpc, line 710: self.last_edit_type = self.this_edit_type
record_edit_type(e) ==
    IF e.abort THEN e ELSE [e EXCEPT !.last_edit_type = e.this_edit_type]

\* do_rpc.  A command that panics ends the process: the state stays as it was
\* before the command, marked aborted.
do_rpc(e, cmd, kill_ring) ==
    The({ IF e2.abort THEN Panic(e) ELSE e2 :
          e2 \in { gc_undos(record_edit_type(render(commit_delta(e1)))) :
                   e1 \in { dispatch([e EXCEPT !.this_edit_type = Other],
                                      cmd, kill_ring) } } })

\* The values do_rpc returns.  Value::Null is Null, a string is its bytes.
Null == "null"

\* View::render_lines: the content of lines first_line .. last_line - 1.
render_lines(t, first_line, last_line) ==
    [line \in {l \in first_line..(last_line - 1) : l <= n_lines(t)} |->
        slice_to_string(t, offset_of_line(t, line), offset_of_line(t, line + 1))]

\* The value of do_cut, lines 550-558, and of do_copy, lines 562-567.
do_cut_value(e) ==
    IF sel_min(e) # sel_max(e) THEN slice_to_string(e.text, sel_min(e), sel_max(e))
    ELSE Null
do_copy_value(e) ==
    IF e.sel_start # e.sel_end THEN slice_to_string(e.text, sel_min(e), sel_max(e))
    ELSE Null

\* The result of do_rpc, lines 675-705 and 712: Some(value) for render_lines,
\* cut and copy, None for the commands wrapped in async().
do_rpc_result(e, cmd) ==
    CASE cmd.op = "render_lines" -> Some(render_lines(e.text, cmd.first_line, cmd.last_line))
      [] cmd.op = "cut" -> Some(do_cut_value(e))
      [] cmd.op = "copy" -> Some(do_copy_value(e))
      [] OTHER -> None

\* do_rpc, line 709: render() sends an update exactly when it finds dirty set.
update_sent(e, cmd, kill_ring) ==
    \E e1 \in { commit_delta(dispatch([e EXCEPT !.this_edit_type = Other],
                                       cmd, kill_ring)) } :
        ~e1.abort /\ e1.dirty

\* do_rpc, lines 673-710: the editor as gc_undos() of line 711 finds it.
before_gc(e, cmd, kill_ring) ==
    The({ record_edit_type(render(commit_delta(e1))) :
          e1 \in { dispatch([e EXCEPT !.this_edit_type = Other], cmd, kill_ring) } })

\* gc_undos, line 187: the groups handed to engine.gc when the editor is e,
\* each with whether live_undos holds it at that moment.
gc_call(e) ==
    IF e.abort THEN {}
    ELSE {<<g, \E i \in 1..Len(e.live_undos) : e.live_undos[i] = g>> : g \in e.gc_undos}

\* A delta was committed by the step from e to e2.
Committed(e, e2, cmd) ==
    cmd.op # "open" /\ e2.engine.rev_id_counter # e.engine.rev_id_counter

\* --------------------------------------------------------------- requests
\* A JSON value: its kind, the payload of a scalar or array in val, the
\* members of an object in obj.  A string is held as its name, or as the list
\* of its bytes where it is text to insert; a number is an integer.
JNull == [kind |-> "null", obj |-> <<>>, val |-> 0]
JStr(s) == [kind |-> "string", obj |-> <<>>, val |-> s]
JNum(n) == [kind |-> "number", obj |-> <<>>, val |-> n]
JBool(b) == [kind |-> "bool", obj |-> <<>>, val |-> b]
JArr(a) == [kind |-> "array", obj |-> <<>>, val |-> a]
JObj(o) == [kind |-> "object", obj |-> o, val |-> 0]
\* A line that is not a JSON document at all.
NotJson(n) == [kind |-> "invalid", obj |-> <<>>, val |-> n]

\* main reads a line with serde_json::from_slice::<Request>, and main and
\* editor.rs take the commands apart by field name (Request::TabCommand { id,
\* tab_command }, Delete { motion }): the types are the ones of
\* rpc/src/lib.rs, whose Deserialize is derived.  A derived enum is read from
\* an object of exactly one member, the variant's name (its serde rename) and
\* the variant's content.
\*
\* The content of a variant without fields: null is read by every serde_json.
\* What else is read depends on the serde_json the build links, and src/ does
\* not say which: the empty array (0.7), or the variant's name as a bare
\* string in place of the object (0.8 and later).
UnitVariantForms == {"seq", "str"}

\* The variant named by an enum value and the content that comes with it.
variant_of(val, form) ==
    IF val.kind = "object" /\ Cardinality(DOMAIN val.obj) = 1
    THEN Some([name |-> The(DOMAIN val.obj), content |-> val.obj[The(DOMAIN val.obj)]])
    ELSE IF val.kind = "string" /\ form = "str"
    THEN Some([name |-> val.val, content |-> JNull])
    ELSE None

\* The content of a variant without fields is there.
is_unit(content, form) ==
    \/ content.kind = "null"
    \/ form = "seq" /\ content.kind = "array" /\ content.val = <<>>

\* The fields of a variant, in the order of names: the members of an object
\* (members that are no field are skipped), or the elements of an array that
\* has exactly the fields in their order.  None when a field is missing.
struct_fields(content, names) ==
    IF content.kind = "object"
    THEN IF \A i \in 1..Len(names) : names[i] \in DOMAIN content.obj
         THEN Some([i \in 1..Len(names) |-> content.obj[names[i]]])
         ELSE None
    ELSE IF content.kind = "array" /\ Len(content.val) = Len(names)
    THEN Some(content.val)
    ELSE None

\* enum EditMotion, lines 121-146: eight variants without fields.
EditMotion_deserialize(val, form) ==
    LET v == variant_of(val, form)
    IN IF ~IsSome(v) THEN None
       ELSE IF /\ Unwrap(v).name \in {"prev_char", "next_char", "prev_line", "next_line",
                                      "start_of_line", "start_of_document",
                                      "end_of_line", "end_of_document"}
               /\ is_unit(Unwrap(v).content, form)
       THEN Some(Unwrap(v).name)
       ELSE None

\* One field of a variant, read as its type: u64 and usize take a number that
\* is not negative, i64 any number (kept as a 64-bit word), String a string,
\* bool a boolean.
field_deserialize(type, val, form) ==
    CASE type \in {"u64", "usize"} ->
            IF val.kind = "number" /\ val.val >= 0 THEN Some(val.val) ELSE None
      [] type = "i64" -> IF val.kind = "number" THEN Some(i64(val.val)) ELSE None
      [] type = "String" -> IF val.kind = "string" THEN Some(val.val) ELSE None
      [] type = "bool" -> IF val.kind = "bool" THEN Some(val.val) ELSE None
      [] type = "EditMotion" -> EditMotion_deserialize(val, form)

\* The fields of a variant read as their types, or None when one is missing or
\* is of another type.
struct_variant(content, names, types, form) ==
    LET raw == struct_fields(content, names)
    IN IF ~IsSome(raw) THEN None
       ELSE LET vals == [i \in 1..Len(names) |->
                            field_deserialize(types[i], Unwrap(raw)[i], form)]
            IN IF \A i \in 1..Len(names) : IsSome(vals[i])
               THEN Some([i \in 1..Len(names) |-> Unwrap(vals[i])])
               ELSE None

\* enum EditCommand, lines 70-119: Some(command), or None where the derived
\* Deserialize gives an error.
EditCommand_deserialize(val, form) ==
    LET v == variant_of(val, form)
        name == Unwrap(v).name
        content == Unwrap(v).content
        fields(names, types) == struct_variant(content, names, types, form)
        f == CASE name = "render_lines" ->
                    fields(<<"first_line", "last_line">>, <<"usize", "usize">>)
               [] name = "key" -> fields(<<"chars", "flags">>, <<"String", "u64">>)
               [] name = "insert" -> fields(<<"chars">>, <<"String">>)
               [] name = "delete" -> fields(<<"motion">>, <<"EditMotion">>)
               [] name = "move" ->
                    fields(<<"motion", "modify_selection">>, <<"EditMotion", "bool">>)
               [] name \in {"open", "save"} -> fields(<<"file_path">>, <<"String">>)
               [] name = "scroll" -> fields(<<"first", "last">>, <<"i64", "i64">>)
               [] name = "click" ->
                    fields(<<"line", "column", "flags", "click_count">>,
                           <<"u64", "u64", "u64", "u64">>)
               [] name = "drag" ->
                    fields(<<"line", "column", "flags">>, <<"u64", "u64", "u64">>)
               [] name \in {"insert_newline", "scroll_page_up",
                             "page_up_and_modify_selection", "scroll_page_down",
                             "page_down_and_modify_selection", "yank", "transpose",
                             "undo", "redo", "cut", "copy", "debug_rewrap",
                             "debug_test_fg_spans"} ->
                    IF is_unit(content, form) THEN Some(<<>>) ELSE None
               [] OTHER -> None
        a == Unwrap(f)
    IN IF ~IsSome(v) THEN None
       ELSE IF ~IsSome(f) THEN None
       ELSE Some(CASE name = "render_lines" -> RenderLines(a[1], a[2])
                   [] name = "key" -> Key(a[1], a[2])
                   [] name = "insert" -> Insert(a[1])
                   [] name = "delete" -> DeleteCmd(a[1])
                   [] name = "move" -> Move(a[1], a[2])
                   [] name = "open" -> Open(a[1])
                   [] name = "save" -> Save(a[1])
                   [] name = "scroll" -> Scroll(a[1], a[2])
                   [] name = "click" -> Click(a[1], a[2], a[3])
                   [] name = "drag" -> Drag(a[1], a[2], a[3])
                   [] OTHER -> Cmd(name))

\* A TabCommand: tc names the variant, tab and cmd are its fields.
NewTab == [tab |-> "", tc |-> "new_tab"]
DeleteTab(tab_name) == [tab |-> tab_name, tc |-> "delete_tab"]
Edit(tab_name, edit_command) == [cmd |-> edit_command, tab |-> tab_name, tc |-> "edit"]

\* enum TabCommand, lines 58-67.
TabCommand_deserialize(val, form) ==
    LET v == variant_of(val, form)
        name == Unwrap(v).name
        content == Unwrap(v).content
    IN IF ~IsSome(v) THEN None
       ELSE CASE name = "new_tab" -> IF is_unit(content, form) THEN Some(NewTab) ELSE None
              [] name = "delete_tab" ->
                   LET f == struct_variant(content, <<"tab_name">>, <<"String">>, form)
                   IN IF IsSome(f) THEN Some(DeleteTab(Unwrap(f)[1])) ELSE None
              [] name = "edit" ->
                   LET raw == struct_fields(content, <<"tab_name", "edit_command">>)
                   IN IF ~IsSome(raw) THEN None
                      ELSE LET tab_name == field_deserialize("String", Unwrap(raw)[1], form)
                               cmd == EditCommand_deserialize(Unwrap(raw)[2], form)
                           IN IF IsSome(tab_name) /\ IsSome(cmd)
                              THEN Some(Edit(Unwrap(tab_name), Unwrap(cmd)))
                              ELSE None
              [] OTHER -> None

\* enum Request, lines 45-55: the one variant tab_command, with the fields id
\* and tab_command.  id is an Option<Value>: None where the object has no
\* member "id" and where the id is null, Some of the value otherwise.
Request_deserialize(val, form) ==
    LET v == variant_of(val, form)
        content == Unwrap(v).content
        is_obj == content.kind = "object" /\ "tab_command" \in DOMAIN content.obj
        is_arr == content.kind = "array" /\ Len(content.val) = 2
        given == IF is_obj
                 THEN IF "id" \in DOMAIN content.obj THEN content.obj["id"] ELSE JNull
                 ELSE content.val[1]
        id == IF given.kind = "null" THEN None ELSE Some(given)
        cmd == TabCommand_deserialize(IF is_obj THEN content.obj["tab_command"]
                                      ELSE content.val[2], form)
    IN IF ~IsSome(v) THEN None
       ELSE IF Unwrap(v).name # "tab_command" \/ ~(is_obj \/ is_arr) THEN None
       ELSE IF IsSome(cmd) THEN Some([id |-> id, tab_command |-> Unwrap(cmd)])
       ELSE None

\* respond writing a line with id 0 for a request without id.
respond_always(result, id) ==
    IF IsSome(id) THEN << <<"response", Unwrap(id).val, result>> >>
    ELSE << <<"response", 0, result>> >>

\* rpc::respond: one line on stdout when the request carried an id.
respond(result, id) ==
    IF IsSome(id) THEN << <<"response", Unwrap(id).val, result>> >> ELSE <<>>

\* handle_req, lines 40-44: what is written to stdout for a result.
handle_req(result, id) ==
    IF IsSome(result) THEN respond(Unwrap(result), id) ELSE <<>>

\* Tabs: an Editor per tab name and the counter the names come from.
TabNames == <<"0", "1", "2", "3", "4">>
Tabs_new(debug) == [id_counter |-> 0, editors |-> <<>>, debug_assertions |-> debug]

\* Tabs::do_rpc: the tabs afterwards, the result, the update notifications
\* written on the way, whether the editor panicked and whether it committed.
Tabs_do_rpc(t, tab_command, kr) ==
    LET unchanged == [abort |-> FALSE, committed |-> FALSE, result |-> None,
                      tabs |-> t, updates |-> <<>>]
        name == TabNames[t.id_counter + 1]
        tab == tab_command.tab
        cmd == tab_command.cmd
    IN CASE tab_command.tc = "new_tab" ->
              [unchanged EXCEPT
                  !.tabs = [t EXCEPT
                      !.id_counter = t.id_counter + 1,
                      !.editors = [n \in DOMAIN t.editors \cup {name} |->
                                      IF n = name THEN Editor_new(t.debug_assertions)
                                      ELSE t.editors[n]]],
                  !.result = Some(name)]
         [] tab_command.tc = "delete_tab" ->
              [unchanged EXCEPT
                  !.tabs = [t EXCEPT
                      !.editors = [n \in DOMAIN t.editors \ {tab} |-> t.editors[n]]]]
         [] tab_command.tc = "edit" ->
              IF tab \notin DOMAIN t.editors THEN unchanged
              ELSE The({ IF e2.abort THEN [unchanged EXCEPT !.abort = TRUE]
                         ELSE [abort |-> FALSE,
                               committed |-> Committed(t.editors[tab], e2, cmd),
                               result |-> do_rpc_result(t.editors[tab], cmd),
                               tabs |-> [t EXCEPT !.editors[tab] = e2],
                               updates |-> IF update_sent(t.editors[tab], cmd, kr)
                                           THEN << <<"update", tab>> >> ELSE <<>>] :
                         e2 \in {do_rpc(t.editors[tab], cmd, kr)} })

\* ------------------------------------------------------------------ state
VARIABLES
    ed,         \* the Editor of one tab
    kill_ring,  \* the process-wide kill ring
    edits,      \* deltas committed so far in this behaviour
    trace,      \* the commands of a recorded scenario
    pc,         \* "idle" between do_rpc calls, "handler" inside one (SpecStage)
    gc_calls,   \* every group ed has handed to engine.gc, as gc_call gives it
    tab_b,      \* the Editor of a second tab (SpecTabs)
    tabs,       \* the Tabs of the stdio loop (SpecMain)
    stdout      \* the lines written to stdout (SpecMain)

vars == <<ed, kill_ring, edits, trace, pc, gc_calls, tab_b, tabs, stdout, files>>

RECURSIVE Run(_, _, _)
\* The editor after the commands of script, in order.
Run(e, script, kr) ==
    IF script = <<>> \/ e.abort THEN e
    ELSE The({Run(e1, Tail(script), kr) : e1 \in {do_rpc(e, Head(script), kr)}})

\* A warm-up session: a character typed and erased in turn, every command a
\* fresh undo group.
WarmScript ==
    [i \in 1..WarmLen |-> IF i % 2 = 1 THEN Key(<<"a">>, 0) ELSE Key(KEY_BACKSPACE, 0)]

\* The editor after construction, in either build configuration.
Init ==
    /\ ed \in {Editor_new(d) : d \in BOOLEAN}
    /\ kill_ring = <<>>
    /\ edits = 0
    /\ trace = <<>>
    /\ pc = "idle"
    /\ gc_calls = {}
    /\ tab_b = ed
    /\ tabs = Tabs_new(ed.debug_assertions)
    /\ stdout = <<>>
    /\ files = Files

\* One request served by do_rpc, the text kept within max_len bytes and the
\* committed revisions within max_edits.  The call is taken in two parts, up to
\* line 710 (e3) and gc_undos() of line 711 (e2), so that gc_calls can record
\* what gc_undos() finds; e2 is do_rpc(ed, cmd, kill_ring).
StepWithin(cmd, max_len, max_edits) ==
    /\ ~ed.abort
    /\ pc = "idle"
    /\ \E e3 \in {before_gc(ed, cmd, kill_ring)} :
       \E e2 \in {IF gc_undos(e3).abort THEN Panic(ed) ELSE gc_undos(e3)} :
          /\ Len(e2.text) <= max_len
          /\ Committed(ed, e2, cmd) => edits < max_edits
          /\ ed' = e2
          /\ edits' = IF Committed(ed, e2, cmd) THEN edits + 1 ELSE edits
          /\ gc_calls' = IF e2.abort THEN gc_calls ELSE gc_calls \cup gc_call(e3)
          /\ files' = IF cmd.op = "save" /\ ~e2.abort THEN do_save(ed, cmd.path).files
                       ELSE files
    /\ UNCHANGED <<kill_ring, pc, tab_b, tabs, stdout>>

Step(cmd) == StepWithin(cmd, MaxLen, MaxEdits)

Motions == {"prev_char", "next_char", "prev_line", "next_line", "start_of_line",
            "start_of_document", "end_of_line", "end_of_document"}
Keys == {<<"a">>, KEY_RETURN, KEY_BACKSPACE, KEY_UP, KEY_DOWN, KEY_LEFT, KEY_RIGHT,
         KEY_PAGE_UP, KEY_PAGE_DOWN, KEY_F1, KEY_F2}

RenderLinesCmd == Step(RenderLines(0, 1)) /\ UNCHANGED trace
KeyCmd ==
    \E c \in Keys, f \in {0, FLAG_SELECT} :
        /\ f = FLAG_SELECT => c \in {KEY_LEFT, KEY_DOWN}
        /\ Step(Key(c, f))
        /\ UNCHANGED trace
InsertCmd == \E s \in {<<"a">>} : Step(Insert(s)) /\ UNCHANGED trace
InsertNewlineCmd == Step(Cmd("insert_newline")) /\ UNCHANGED trace
MoveCmd == \E m \in Motions, b \in BOOLEAN : Step(Move(m, b)) /\ UNCHANGED trace
DeleteMotionCmd == \E m \in Motions : Step(DeleteCmd(m)) /\ UNCHANGED trace
ScrollPageUpCmd == Step(Cmd("scroll_page_up")) /\ UNCHANGED trace
PageUpAndModifySelectionCmd == Step(Cmd("page_up_and_modify_selection")) /\ UNCHANGED trace
ScrollPageDownCmd == Step(Cmd("scroll_page_down")) /\ UNCHANGED trace
PageDownAndModifySelectionCmd ==
    Step(Cmd("page_down_and_modify_selection")) /\ UNCHANGED trace
OpenCmd == \E p \in DOMAIN Files : Step(Open(p)) /\ UNCHANGED trace
\* Under Spec the file system stays as it was found: the save that is
\* enumerated is one whose File::create fails.  SpecFiles has the others.
SaveCmd == Step(Save("missing")) /\ UNCHANGED trace
ScrollCmd == \E l \in {3} : Step(Scroll(i64(0), i64(l))) /\ UNCHANGED trace
YankCmd == Step(Cmd("yank")) /\ UNCHANGED trace
TransposeCmd == Step(Cmd("transpose")) /\ UNCHANGED trace
ClickCmd ==
    \E l \in 0..1, c \in 0..1, f \in {0, FLAG_SELECT} : Step(Click(l, c, f)) /\ UNCHANGED trace
DragCmd == \E l \in 0..1, c \in 0..1 : Step(Drag(l, c, 0)) /\ UNCHANGED trace
UndoCmd == Step(Cmd("undo")) /\ UNCHANGED trace
RedoCmd == Step(Cmd("redo")) /\ UNCHANGED trace
CutCmd == Step(Cmd("cut")) /\ UNCHANGED trace
CopyCmd == Step(Cmd("copy")) /\ UNCHANGED trace
DebugRewrapCmd == Step(Cmd("debug_rewrap")) /\ UNCHANGED trace
DebugTestFgSpansCmd == Step(Cmd("debug_test_fg_spans")) /\ UNCHANGED trace

Next ==
    \/ RenderLinesCmd
    \/ KeyCmd
    \/ InsertCmd
    \/ InsertNewlineCmd
    \/ MoveCmd
    \/ DeleteMotionCmd
    \/ ScrollPageUpCmd
    \/ PageUpAndModifySelectionCmd
    \/ ScrollPageDownCmd
    \/ PageDownAndModifySelectionCmd
    \/ OpenCmd
    \/ SaveCmd
    \/ ScrollCmd
    \/ YankCmd
    \/ TransposeCmd
    \/ ClickCmd
    \/ DragCmd
    \/ UndoCmd
    \/ RedoCmd
    \/ CutCmd
    \/ CopyCmd
    \/ DebugRewrapCmd
    \/ DebugTestFgSpansCmd

Spec == Init /\ [][Next]_vars

\* The editor after the warm-up session, MAX_UNDOS nearly reached, under the
\* commands that commit, undo, redo, open or move to a document end.
InitWarm ==
    /\ ed \in {Run(Editor_new(d), WarmScript, <<>>) : d \in BOOLEAN}
    /\ kill_ring = <<>>
    /\ edits = 0
    /\ trace = <<>>
    /\ pc = "idle"
    /\ gc_calls = {}
    /\ tab_b = ed
    /\ tabs = Tabs_new(ed.debug_assertions)
    /\ stdout = <<>>
    /\ files = Files

WarmKeyCmd ==
    \E c \in {<<"a">>, KEY_BACKSPACE, KEY_LEFT} : Step(Key(c, 0)) /\ UNCHANGED trace
WarmMoveCmd ==
    \E m \in {"start_of_document", "end_of_document"} :
        Step(Move(m, FALSE)) /\ UNCHANGED trace

NextWarm ==
    \/ WarmKeyCmd
    \/ WarmMoveCmd
    \/ InsertCmd
    \/ RenderLinesCmd
    \/ OpenCmd
    \/ UndoCmd
    \/ RedoCmd

SpecWarm == InitWarm /\ [][NextWarm]_vars

\* The editor after the warm-up session, with room for a discarded redo tail
\* before live_undos fills up and the oldest group is evicted.
StepEvict(cmd) == StepWithin(cmd, MaxLen, MaxEvictEdits)

EvictKey == \E c \in {<<"a">>, KEY_BACKSPACE} : StepEvict(Key(c, 0)) /\ UNCHANGED trace
EvictInsert == StepEvict(Insert(<<"a">>)) /\ UNCHANGED trace
EvictUndo == StepEvict(Cmd("undo")) /\ UNCHANGED trace
EvictRedo == StepEvict(Cmd("redo")) /\ UNCHANGED trace
EvictOpen == StepEvict(Open("notes")) /\ UNCHANGED trace

NextEvict ==
    \/ EvictKey
    \/ EvictInsert
    \/ EvictUndo
    \/ EvictRedo
    \/ EvictOpen

SpecEvict == InitWarm /\ [][NextEvict]_vars

\* A fresh editor under inserts of a letter and of a CR LF line end, horizontal
\* motion and forward delete.
StepCrLf(cmd) == StepWithin(cmd, MaxCrLfLen, MaxCrLfEdits)

CrLfInsert == \E s \in {<<"a">>, <<CR, NL>>} : StepCrLf(Insert(s)) /\ UNCHANGED trace
CrLfMove ==
    \E m \in {"prev_char", "next_char", "start_of_document"} :
        StepCrLf(Move(m, FALSE)) /\ UNCHANGED trace
CrLfDeleteForward == StepCrLf(DeleteCmd("next_char")) /\ UNCHANGED trace

NextCrLf ==
    \/ CrLfInsert
    \/ CrLfMove
    \/ CrLfDeleteForward

SpecCrLf == Init /\ [][NextCrLf]_vars

\* Recorded scenarios on a fresh editor: trace is the sequence of commands
\* served since construction.
\* The editor and the files it saves and opens: what a save writes is what a
\* later open reads.
FilesInsert == \E c \in {<<"a">>} : Step(Insert(c)) /\ UNCHANGED trace
FilesUndo == Step(Cmd("undo")) /\ UNCHANGED trace
FilesSave == \E p \in DOMAIN Files : Step(Save(p)) /\ UNCHANGED trace
FilesOpen == \E p \in DOMAIN Files : Step(Open(p)) /\ UNCHANGED trace

NextFiles ==
    \/ FilesInsert
    \/ FilesUndo
    \/ FilesSave
    \/ FilesOpen

SpecFiles == Init /\ [][NextFiles]_vars

InitScenario == Init

\* What a recorded scenario keeps of a command: its variant and parameters.
Sent(cmd) == <<cmd.op, cmd.chars, cmd.flags, cmd.motion, cmd.modify, cmd.path>>

Record(cmd) ==
    /\ Len(trace) < MaxScript
    /\ StepWithin(cmd, MaxScript, MaxScript)
    /\ trace' = Append(trace, Sent(cmd))

ScenarioKey == \E c \in {<<"a">>, <<"b">>, <<"c">>} : Record(Key(c, 0))
ScenarioInsert == \E c \in {<<"a">>, <<"b">>} : Record(Insert(c))
ScenarioMove == Record(Move("next_char", FALSE))
ScenarioRenderLines == Record(RenderLines(0, 1))
ScenarioUndo == Record(Cmd("undo"))
ScenarioRedo == Record(Cmd("redo"))
ScenarioOpen == \E p \in DOMAIN Files : Record(Open(p))

NextScenario ==
    \/ ScenarioKey
    \/ ScenarioInsert
    \/ ScenarioMove
    \/ ScenarioRenderLines
    \/ ScenarioUndo
    \/ ScenarioRedo
    \/ ScenarioOpen

SpecScenario == InitScenario /\ [][NextScenario]_vars

\* do_rpc taken apart, to observe the pending delta inside a call: the handler
\* runs (BeginCall), further stagings are attempted (AddDelta; trace records
\* their start, end and new text), and the call ends with commit, render and sweep (EndCall).
BeginCall ==
    /\ pc = "idle"
    /\ ~ed.abort
    /\ \E cmd \in {Insert(<<"a">>), Key(KEY_BACKSPACE, 0), Cmd("undo"), Cmd("redo"),
                    Cmd("cut"), Cmd("transpose"), Move("start_of_document", TRUE),
                    Open("notes")} :
          ed' = dispatch([ed EXCEPT !.this_edit_type = Other], cmd, kill_ring)
    /\ pc' = "handler"
    /\ trace' = <<>>
    /\ UNCHANGED <<kill_ring, edits, gc_calls, tab_b, tabs, stdout, files>>

AddDelta ==
    /\ pc = "handler"
    /\ ~ed.abort
    /\ Len(trace) < MaxStage
    /\ \E start \in 0..Len(ed.text), new \in {<<"b">>} :
         \E end \in start..Len(ed.text) :
            /\ ed' = add_delta(ed, start, end, new, start + Len(new))
            /\ trace' = Append(trace, <<start, end, new>>)
    /\ UNCHANGED <<kill_ring, edits, pc, gc_calls, tab_b, tabs, stdout, files>>

\* A panic inside the call ends the process there: pc stays "handler".
EndCall ==
    /\ pc = "handler"
    /\ ~ed.abort
    /\ LET e2 == gc_undos(record_edit_type(render(commit_delta(ed)))) IN
       /\ Len(e2.text) <= MaxLen
       /\ e2.engine.rev_id_counter # ed.engine.rev_id_counter => edits < MaxEdits
       /\ ed' = e2
       /\ edits' = IF e2.engine.rev_id_counter # ed.engine.rev_id_counter
                    THEN edits + 1 ELSE edits
       /\ pc' = IF e2.abort THEN "handler" ELSE "idle"
       /\ gc_calls' = IF e2.abort THEN gc_calls
                      ELSE gc_calls \cup
                           UNION {gc_call(e3) :
                                  e3 \in {record_edit_type(render(commit_delta(ed)))}}
    /\ trace' = <<>>
    /\ UNCHANGED <<kill_ring, tab_b, tabs, stdout, files>>

NextStage ==
    \/ BeginCall
    \/ AddDelta
    \/ EndCall

SpecStage == Init /\ [][NextStage]_vars

\* Two tabs and the kill ring they share.  do_rpc has no command that reaches
\* delete_to_end_of_paragraph (rpc.rs line 200 is commented out), and nothing
\* else writes the kill ring: it keeps its initial value.
TabA ==
    \E cmd \in {Insert(<<"a">>), Cmd("insert_newline"), Move("prev_char", TRUE),
                 Move("prev_char", FALSE), Cmd("yank")} :
        StepWithin(cmd, MaxLen, MaxTabEdits) /\ UNCHANGED trace

TabB ==
    /\ ~tab_b.abort
    /\ \E cmd \in {Insert(<<"b">>), Move("prev_char", TRUE), Cmd("yank")} :
       \E b2 \in {do_rpc(tab_b, cmd, kill_ring)} :
          /\ Len(b2.text) <= MaxLen
          /\ Committed(tab_b, b2, cmd) => edits < MaxTabEdits
          /\ tab_b' = b2
          /\ edits' = IF Committed(tab_b, b2, cmd) THEN edits + 1 ELSE edits
    /\ UNCHANGED <<ed, kill_ring, trace, pc, gc_calls, tabs, stdout, files>>

NextTabs ==
    \/ TabA
    \/ TabB

SpecTabs == Init /\ [][NextTabs]_vars

\* The stdio loop of main.  Line(i) is what can arrive on stdin; the id of a
\* request is the number of its line.
RequestLine(content) == JObj([tab_command |-> content])
Unit(name) == JObj([n \in {name} |-> JNull])
EditLine(i, tab, edit_command) ==
    RequestLine(JObj([id |-> JNum(i),
                      tab_command |-> JObj([edit |-> JObj([edit_command |-> edit_command,
                                                            tab_name |-> JStr(tab)])])]))
NoIdEditLine(tab, edit_command) ==
    RequestLine(JObj([tab_command |-> JObj([edit |-> JObj([edit_command |-> edit_command,
                                                            tab_name |-> JStr(tab)])])]))
LineNumbers == 1..14
Line(i) ==
    CASE i = 1 -> RequestLine(JObj([id |-> JNum(i), tab_command |-> Unit("new_tab")]))
      \* the fields as an array, the id null
      [] i = 2 -> RequestLine(JArr(<<JNull, JObj([edit |-> JArr(<<JStr("0"), Unit("copy")>>)])>>))
      [] i = 3 -> NoIdEditLine("0", JObj([insert |-> JObj([chars |-> JStr(<<"a">>)])]))
      [] i = 4 -> EditLine(i, "0", Unit("cut"))
      [] i = 5 -> EditLine(i, "0", JObj([move |-> JObj([modify_selection |-> JBool(TRUE),
                                                        motion |-> Unit("prev_char")])]))
      [] i = 6 -> EditLine(i, "9", Unit("cut"))
      [] i = 7 -> RequestLine(JObj([id |-> JNum(i),
                                    tab_command |-> JObj([delete_tab |->
                                                             JObj([tab_name |-> JStr("0")])])]))
      [] i = 8 -> EditLine(i, "0", JObj([delete |-> JObj([motion |-> Unit("end_of_line")])]))
      \* a variant without fields given as a bare string
      [] i = 9 -> RequestLine(JObj([id |-> JNum(i), tab_command |-> JStr("new_tab")]))
      \* no such variant
      [] i = 10 -> RequestLine(JObj([id |-> JNum(i), tab_command |-> Unit("bogus")]))
      \* a field is missing
      [] i = 11 -> EditLine(i, "0", JObj([insert |-> JObj(<<>>)]))
      \* another shape: an object of method, params and id
      [] i = 12 -> JObj([id |-> JNum(i), method |-> JStr("new_tab"), params |-> JObj(<<>>)])
      \* a negative number where the field is a u64
      [] i = 13 -> EditLine(i, "0", JObj([click |-> JArr(<<JNum(0), JNum(0 - 1),
                                                           JNum(0), JNum(1)>>)]))
      [] i = 14 -> NotJson(i)

\* main, line 62: the line is turned into a Request, or is not.
parse_line(line, form) ==
    IF line.kind = "invalid" THEN None ELSE Request_deserialize(line, form)

\* main, lines 56-67: one line is read and served.  trace keeps, for every line
\* read, its number, whether it parsed, whether the command gave a result and
\* whether the request carried an id.  A panic in the editor ends the process.
ReadLine ==
    /\ pc = "idle"
    /\ Len(trace) < MaxLines
    /\ \E i \in LineNumbers :
       \E req \in {parse_line(Line(i), form) : form \in UnitVariantForms} :
          IF ~IsSome(req)
          THEN /\ trace' = Append(trace, <<i, FALSE, FALSE, FALSE>>)
               /\ UNCHANGED <<tabs, stdout, edits, pc>>
          ELSE \E r \in {Tabs_do_rpc(tabs, Unwrap(req).tab_command, kill_ring)} :
               /\ r.tabs.id_counter <= MaxTabs
               /\ \A n \in DOMAIN r.tabs.editors : Len(r.tabs.editors[n].text) <= MaxLen
               /\ r.committed => edits < MaxEdits
               /\ tabs' = r.tabs
               /\ stdout' = stdout \o r.updates \o handle_req(r.result, Unwrap(req).id)
               /\ edits' = IF r.committed THEN edits + 1 ELSE edits
               /\ pc' = IF r.abort THEN "dead" ELSE "idle"
               /\ trace' = Append(trace, <<i, TRUE, IsSome(r.result),
                                           IsSome(Unwrap(req).id)>>)
    /\ UNCHANGED <<ed, kill_ring, gc_calls, tab_b, files>>

\* main, lines 57-59: end of input.
EndOfInput ==
    /\ pc = "idle"
    /\ pc' = "eof"
    /\ UNCHANGED <<ed, kill_ring, edits, trace, gc_calls, tab_b, tabs, stdout, files>>

\* main, line 56: read_line fails (the bytes read are not UTF-8); the loop
\* ends there, no line has been read.
ReadError ==
    /\ pc = "idle"
    /\ pc' = "read_error"
    /\ UNCHANGED <<ed, kill_ring, edits, trace, gc_calls, tab_b, tabs, stdout, files>>

NextMain ==
    \/ ReadLine
    \/ EndOfInput
    \/ ReadError

SpecMain == Init /\ [][NextMain]_vars

\* ------------------------------------------------------------------ claims
Range(f) == {f[i] : i \in DOMAIN f}

RECURSIVE UndoK(_, _)
\* The editor after k undo commands.
UndoK(e, k) == IF k = 0 THEN e ELSE UndoK(do_rpc(e, Cmd("undo"), <<>>), k - 1)

RECURSIVE RedoK(_, _)
\* The editor after k redo commands.
RedoK(e, k) == IF k = 0 THEN e ELSE RedoK(do_rpc(e, Cmd("redo"), <<>>), k - 1)

\* The text and the undo bookkeeping of a and b agree.
SameUndoState(a, b) ==
    /\ a.text = b.text
    /\ a.live_undos = b.live_undos
    /\ a.cur_undo = b.cur_undo
    /\ a.undos = b.undos

\* The groups of the redo tail, live_undos[cur_undo..].
TailGroups(e) == {e.live_undos[i] : i \in (e.cur_undo + 1)..Len(e.live_undos)}

\* A redo served in state e changes neither the text nor the undo bookkeeping.
RedoIsNoOp(e) ==
    LET r == do_rpc(e, Cmd("redo"), <<>>) IN SameUndoState(r, e) /\ r.engine = e.engine

\* C1: on a fresh editor, after any sequence of edits, once undo has brought
\* cur_undo to 0 the text is the initial (empty) text.
C1_UndoAllRestoresInitialText == ed.cur_undo = 0 => ed.text = <<>>

\* C2 as claimed: from any reachable state, k undos then k redos leave the text,
\* live_undos, cur_undo and undos as they were, for every k.
C2_RoundTripFromAnyState ==
    \A k \in 0..MaxK : SameUndoState(RedoK(UndoK(ed, k), k), ed)

\* C2, amended: k undos then k redos leave the text, live_undos, cur_undo and
\* undos as they were for every k <= cur_undo, and for every k when no group is
\* undone at the start (cur_undo = live_undos.len()).
C2_RoundTrip ==
    \A k \in 0..MaxK :
        (k <= ed.cur_undo \/ ed.cur_undo = Len(ed.live_undos))
            => SameUndoState(RedoK(UndoK(ed, k), k), ed)

\* Two applied groups whose undoing changes the text, and more undos asked for
\* than there are groups.
C2_Witness ==
    /\ ed.cur_undo = 2
    /\ Len(ed.live_undos) = 2
    /\ UndoK(ed, MaxK).cur_undo = 0
    /\ UndoK(ed, MaxK).text # ed.text
    /\ RedoK(UndoK(ed, MaxK), MaxK).text = ed.text

\* C3: a commit made while groups are undone removes the redo tail from
\* live_undos, from undos and (through gc) from the engine's history, ends with
\* cur_undo = live_undos.len(), and a following redo is a no-op.
C3_NewEditDiscardsRedoTail ==
    [][(edits' = edits + 1 /\ ed.cur_undo < Len(ed.live_undos)) =>
         /\ \A g \in TailGroups(ed) :
               /\ g \notin Range(ed'.live_undos)
               /\ g \notin ed'.undos
               /\ g \notin GroupsOf(ed'.engine)
         /\ ed'.cur_undo = Len(ed'.live_undos)
         /\ RedoIsNoOp(ed')]_vars

\* After [e1; undo; e2]: group 0 is gone, group 1 is the only live group.
C3_Witness ==
    /\ edits = 2
    /\ ed.undo_group_id = 2
    /\ ed.live_undos = <<1>>
    /\ ed.cur_undo = 1
    /\ GroupsOf(ed.engine) = {1}

\* C4: after [key "a"; key "b"; key "c"; undo] on a fresh editor the text is
\* empty, cur_undo = 0 and live_undos has one entry.
C4_KeysCoalesce ==
    trace = <<Sent(Key(<<"a">>, 0)), Sent(Key(<<"b">>, 0)), Sent(Key(<<"c">>, 0)),
              Sent(Cmd("undo"))>>
        => ed.text = <<>> /\ ed.cur_undo = 0 /\ Len(ed.live_undos) = 1

\* C5: after [key "a"; move next_char; key "b"; undo] on a fresh editor only
\* "b" is removed: the text is "a".
C5_MotionBreaksGroup ==
    trace = <<Sent(Key(<<"a">>, 0)), Sent(Move("next_char", FALSE)),
              Sent(Key(<<"b">>, 0)), Sent(Cmd("undo"))>>
        => ed.text = <<"a">>

\* C6: between commands cur_undo <= live_undos.len() <= MAX_UNDOS.
C6_UndoBounds ==
    ed.cur_undo <= Len(ed.live_undos) /\ Len(ed.live_undos) <= MAX_UNDOS

\* live_undos is full and a group has been evicted.
C6_Witness ==
    /\ Len(ed.live_undos) = MAX_UNDOS
    /\ ed.cur_undo = MAX_UNDOS
    /\ ed.undo_group_id > MAX_UNDOS

\* C7: after every do_rpc gc_undos is empty and every group in undos is an
\* element of live_undos.
C7_GcSwept == ed.gc_undos = {} /\ ed.undos \subseteq Range(ed.live_undos)

\* After [e1; undo; e2; undo]: the sweep took group 0 out of undos, group 1 is
\* undone.
C7_Witness ==
    /\ ed.undo_group_id = 2
    /\ ed.live_undos = <<1>>
    /\ ed.cur_undo = 0
    /\ ed.undos = {1}

\* C8: after every do_rpc the text equals the engine's head.
C8_TextMirrorsHead == ed.text = get_head(ed.engine)

\* A group is undone in the engine and its bytes are out of the text.
C8_Witness ==
    /\ ed.engine.undone # {}
    /\ ed.cur_undo < Len(ed.live_undos)
    /\ Len(ed.text) < Len(ed.engine.union)

\* C9: between do_rpc calls delta and new_cursor are None; inside a call a
\* staging attempt made while a delta is pending leaves the delta and its cursor
\* untouched; a call appends at most one revision to the engine.
C9_SinglePendingDelta ==
    [][/\ pc = "idle" => ed.delta = None /\ ed.new_cursor = None
       /\ (pc = "handler" /\ pc' = "handler" /\ IsSome(ed.delta)) =>
             ed'.delta = ed.delta /\ ed'.new_cursor = ed.new_cursor
       /\ (pc = "handler" /\ pc' = "handler") => ed'.engine = ed.engine
       /\ (pc = "idle" /\ pc' = "handler") =>
             ed'.engine.rev_id_counter \in {ed.engine.rev_id_counter, 0}
       /\ pc' = "idle" =>
             /\ ed'.delta = None /\ ed'.new_cursor = None
             /\ ed'.engine.rev_id_counter <= ed.engine.rev_id_counter + 1]_vars

\* Inside a call, a staging attempt that differs from the pending delta has
\* been made and dropped.
C9_Witness ==
    /\ pc = "handler"
    /\ Len(trace) = MaxStage
    /\ IsSome(ed.delta)
    /\ LET d == Unwrap(ed.delta) IN <<d.start, d.end, d.new>> # trace[Len(trace)]

\* C10: every undo group in undos is the undo group of at least one revision of
\* the engine's history.
C10_UndosNameRevisions == ed.undos \subseteq GroupsOf(ed.engine)

\* The groups handed to engine.gc so far.
Swept == {c[1] : c \in gc_calls}

\* C11: no group handed to engine.gc was in live_undos at the time of the call,
\* and a group once handed to gc is not in live_undos, not in undos, and not
\* the undo group of a revision made since.
C11_GcOnlyDeadGroups ==
    /\ \A c \in gc_calls : c[2] = FALSE
    /\ Swept \cap Range(ed.live_undos) = {}
    /\ Swept \cap ed.undos = {}
    /\ Swept \cap GroupsOf(ed.engine) = {}

\* A redo tail was swept by one commit and a later commit allocated a further
\* group, whose revision is in the history.
C11_Witness ==
    /\ Swept # {}
    /\ 0 \notin Swept
    /\ \E g \in GroupsOf(ed.engine) : \A w \in Swept : g > w + 1

\* The last command of the recorded scenario was an open of path.
JustOpened(path) == trace # <<>> /\ trace[Len(trace)] = Sent(Open(path))

\* C12: right after a successful open the text is the file's contents, the
\* selection is empty at 0, the engine's history is empty, and an undo or a redo
\* changes neither the text nor the undo bookkeeping.
C12_OpenDiscardsHistory ==
    JustOpened("notes") =>
        /\ ed.text = files["notes"].contents
        /\ ed.sel_start = 0 /\ ed.sel_end = 0
        /\ ed.engine.revs = <<>>
        /\ SameUndoState(do_rpc(ed, Cmd("undo"), kill_ring), ed)
        /\ SameUndoState(do_rpc(ed, Cmd("redo"), kill_ring), ed)

\* C13: with a non-empty selection in the first tab, delete_to_end_of_paragraph
\* there followed by yank in the second tab puts the first tab's selected text
\* into the second tab, at its selection (whichever answer the rope's cursor
\* gives at the end of the text).
C13_KillRingShared ==
    (sel_min(ed) # sel_max(ed) /\ ~ed.abort /\ ~tab_b.abort) =>
        \E next_at_end \in CursorNextAtEnd :
            LET hello == slice_to_string(ed.text, sel_min(ed), sel_max(ed))
                a == delete_to_end_of_paragraph(ed, kill_ring, next_at_end)
                b == do_rpc(tab_b, Cmd("yank"), a.kill_ring)
            IN b.text = SubSeq(tab_b.text, 1, sel_min(tab_b)) \o hello \o
                        SubSeq(tab_b.text, sel_max(tab_b) + 1, Len(tab_b.text))

\* The engine and the undo bookkeeping of a and b agree.
SameHistory(a, b) ==
    /\ a.engine = b.engine
    /\ a.live_undos = b.live_undos
    /\ a.cur_undo = b.cur_undo
    /\ a.undos = b.undos
    /\ a.gc_undos = b.gc_undos
    /\ a.undo_group_id = b.undo_group_id

\* C14: with a non-empty selection, move prev_char (next_char) without
\* modify_selection leaves sel_start = sel_end = sel_min (sel_max) and changes
\* neither the text, the engine nor the undo bookkeeping.
C14_MoveCollapsesSelection ==
    (ed.sel_start # ed.sel_end /\ ~ed.abort) =>
        LET l == do_rpc(ed, Move("prev_char", FALSE), kill_ring)
            r == do_rpc(ed, Move("next_char", FALSE), kill_ring)
        IN /\ l.sel_start = sel_min(ed) /\ l.sel_end = sel_min(ed)
           /\ r.sel_start = sel_max(ed) /\ r.sel_end = sel_max(ed)
           /\ l.text = ed.text /\ r.text = ed.text
           /\ SameHistory(l, ed) /\ SameHistory(r, ed)
           /\ ~l.abort /\ ~r.abort

\* Two bytes are selected: collapsing differs from moving one grapheme from
\* either end of the selection.
C14_Witness ==
    /\ ~ed.abort
    /\ Len(ed.text) = 2
    /\ sel_min(ed) = 0 /\ sel_max(ed) = 2
    /\ do_rpc(ed, Move("prev_char", FALSE), kill_ring).sel_end = 0
    /\ do_rpc(ed, Move("next_char", FALSE), kill_ring).sel_end = 2

\* The editor after a move prev_line or next_line.
Vertical(motion, modify) == do_rpc(ed, Move(motion, modify), kill_ring)

\* C15 as claimed: a move prev_line or next_line, with or without
\* modify_selection, leaves col as it was in every reachable state.
C15_VerticalKeepsCol ==
    ~ed.abort =>
        \A motion \in {"prev_line", "next_line"}, modify \in BOOLEAN :
            Vertical(motion, modify).col = ed.col

\* C15, amended: a move prev_line or next_line that moves sel_end leaves col as
\* it was; one that leaves sel_end where it was (clamped at the first or last
\* line, or already at the target) sets col to the column of sel_end.
C15_VerticalKeepsColWhenMoving ==
    ~ed.abort =>
        \A motion \in {"prev_line", "next_line"}, modify \in BOOLEAN :
            LET v == Vertical(motion, modify) IN
            IF v.sel_end # ed.sel_end
            THEN v.col = ed.col
            ELSE v.col = offset_to_line_col(ed.text, ed.sel_end)[2]

\* A move next_line lands on a shorter line: the cursor is left of the
\* preferred column, which is kept.
C15_Witness ==
    /\ ~ed.abort
    /\ LET v == Vertical("next_line", FALSE) IN
       /\ v.sel_end # ed.sel_end
       /\ v.col = ed.col
       /\ v.col > offset_to_line_col(v.text, v.sel_end)[2]

\* The interval a transpose covers, from the cursor and the document length:
\* the byte before and the byte after sel_end, or the two bytes before it when
\* sel_end is the document end.
TransposeMiddle == IF ed.sel_end = Len(ed.text) /\ ed.sel_end > 0
                   THEN ed.sel_end - 1 ELSE ed.sel_end
TransposeStart == Max(TransposeMiddle - 1, 0)
TransposeEnd == Min(ed.sel_end + 1, Len(ed.text))
Transposed == do_rpc(ed, Cmd("transpose"), kill_ring)

\* C16: transpose stages one delta over [start, end) whose content is
\* slice(middle, end) + slice(start, middle); after the command the document
\* has the same length, every byte outside [start, end) is as it was, the
\* bytes inside are the staged content and the cursor is at end.
C16_Transpose ==
    ~ed.abort =>
        LET staged == do_transpose(ed)
            swapped == SubSeq(ed.text, TransposeMiddle + 1, TransposeEnd) \o
                       SubSeq(ed.text, TransposeStart + 1, TransposeMiddle)
        IN /\ IsSome(staged.delta)
           /\ Unwrap(staged.delta).start = TransposeStart
           /\ Unwrap(staged.delta).end = TransposeEnd
           /\ Unwrap(staged.delta).new = swapped
           /\ ~Transposed.abort
           /\ Len(Transposed.text) = Len(ed.text)
           /\ \A i \in 1..Len(ed.text) :
                 Transposed.text[i] = IF i > TransposeStart /\ i <= TransposeEnd
                                      THEN swapped[i - TransposeStart]
                                      ELSE ed.text[i]
           /\ Transposed.sel_end = TransposeEnd
           /\ Transposed.sel_start = TransposeEnd

\* cmd returns without staging or committing anything: no revision is
\* appended and text, live_undos, cur_undo and undos are as before.
StagesNothing(cmd) ==
    /\ ~IsSome(dispatch([ed EXCEPT !.this_edit_type = Other], cmd, kill_ring).delta)
    /\ LET e2 == do_rpc(ed, cmd, kill_ring)
       IN /\ ~e2.abort
          /\ e2.engine = ed.engine
          /\ e2.text = ed.text
          /\ e2.live_undos = ed.live_undos
          /\ e2.cur_undo = ed.cur_undo
          /\ e2.undos = ed.undos

\* C17: undo with nothing to undo, redo with nothing to redo, move next_char
\* at the document end, move prev_char at offset 0, delete on an empty
\* document with an empty selection and cut with an empty selection stage
\* nothing and change neither text nor undo bookkeeping; that cut returns null.
C17_NoOpsStageNothing ==
    ~ed.abort =>
        /\ ed.cur_undo = 0 => StagesNothing(Cmd("undo"))
        /\ ed.cur_undo = Len(ed.live_undos) => StagesNothing(Cmd("redo"))
        /\ ed.sel_start = ed.sel_end /\ ed.sel_end = Len(ed.text) =>
              StagesNothing(Move("next_char", FALSE))
        /\ ed.sel_start = ed.sel_end /\ ed.sel_end = 0 =>
              StagesNothing(Move("prev_char", FALSE))
        /\ ed.sel_start = ed.sel_end /\ Len(ed.text) = 0 =>
              \A motion \in {"prev_char", "next_char", "start_of_line"} :
                  StagesNothing(DeleteCmd(motion))
        /\ ed.sel_start = ed.sel_end =>
              /\ StagesNothing(Cmd("cut"))
              /\ do_rpc_result(ed, Cmd("cut")) = Some(Null)

\* The paths whose open fails: the file cannot be opened or cannot be read.
Unreadable == {p \in DOMAIN files : ~(files[p].opens /\ files[p].reads)}

\* C18 as claimed: an open that fails leaves every field of the editor as it
\* was, the edit-type tracking included, and sends no update.
C18_FailedOpenChangesNothing ==
    ~ed.abort =>
        \A p \in Unreadable :
            /\ do_rpc(ed, Open(p), kill_ring) = ed
            /\ ~update_sent(ed, Open(p), kill_ring)

\* C18, amended: an open that fails leaves text, selection, engine and undo
\* bookkeeping as they were and sends no update; last_edit_type and
\* this_edit_type are Other afterwards, as after any command but render_lines.
C18_FailedOpenResetsEditType ==
    ~ed.abort =>
        \A p \in Unreadable :
            /\ do_rpc(ed, Open(p), kill_ring) =
                  [ed EXCEPT !.last_edit_type = Other, !.this_edit_type = Other]
            /\ ~update_sent(ed, Open(p), kill_ring)

\* A failed open after an insert: the document is not empty, the last edit
\* type was InsertChars and is Other after the open, the text is kept.
C18_Witness ==
    /\ ~ed.abort
    /\ ed.text # <<>>
    /\ ed.last_edit_type = InsertChars
    /\ do_rpc(ed, Open("missing"), kill_ring).last_edit_type = Other
    /\ do_rpc(ed, Open("missing"), kill_ring).text = ed.text

IsResponse(out) == out[1] = "response"

\* C19: in every step of the stdio loop that reads a line, a response is
\* written exactly when the line parsed, the command gave a result and the
\* request carried an id, and it carries that id; a line that does not parse
\* writes nothing, leaves tabs, editors and kill ring as they were, and leaves
\* the loop reading.
C19_Dispatcher ==
    [][Len(trace') = Len(trace) + 1 =>
         LET entry == trace'[Len(trace')]
             written == SubSeq(stdout', Len(stdout) + 1, Len(stdout'))
             responses == SelectSeq(written, IsResponse)
         IN /\ Len(stdout') >= Len(stdout)
            /\ IF entry[2] /\ entry[3] /\ entry[4]
               THEN Len(responses) = 1 /\ responses[1][2] = entry[1]
               ELSE responses = <<>>
            /\ ~entry[2] =>
                  /\ stdout' = stdout
                  /\ tabs' = tabs
                  /\ kill_ring' = kill_ring
                  /\ pc' = "idle"]_vars

\* A line that did not parse was followed by a request that was answered: the
\* answer is the last line on stdout.
C19_Witness ==
    /\ stdout # <<>>
    /\ \E k \in 1..(Len(trace) - 1) :
          /\ k + 1 = Len(trace)
          /\ ~trace[k][2]
          /\ trace[k + 1][2] /\ trace[k + 1][3] /\ trace[k + 1][4]
          /\ IsResponse(stdout[Len(stdout)])
          /\ stdout[Len(stdout)][2] = trace[k + 1][1]

Returns(cmd) == ~do_rpc(ed, cmd, kill_ring).abort

\* C20: from every reachable editor state every edit command, delete and move
\* with each of the eight motions included, returns from do_rpc.
C20_CommandsComplete ==
    ~ed.abort =>
        /\ \A motion \in Motions :
              /\ Returns(DeleteCmd(motion))
              /\ \A modify \in BOOLEAN : Returns(Move(motion, modify))
        /\ \A op \in {"insert_newline", "scroll_page_up", "page_up_and_modify_selection",
                       "scroll_page_down", "page_down_and_modify_selection", "yank",
                       "transpose", "undo", "redo", "cut", "copy", "debug_rewrap",
                       "debug_test_fg_spans"} : Returns(Cmd(op))
        /\ Returns(RenderLines(0, 1))
        /\ \A chars \in Keys : Returns(Key(chars, 0))
        /\ Returns(Insert(<<"a">>))
        /\ \A path \in DOMAIN Files : Returns(Open(path)) /\ Returns(Save(path))
        /\ Returns(Scroll(i64(0), i64(3)))
        /\ Returns(Click(0, 0, 0))
        /\ Returns(Drag(0, 0, 0))

\* One command of every variant, and delete and move with every motion.
Commands ==
    {Cmd(op) : op \in {"insert_newline", "scroll_page_up", "page_up_and_modify_selection",
                       "scroll_page_down", "page_down_and_modify_selection", "yank",
                       "transpose", "undo", "redo", "cut", "copy", "debug_rewrap",
                       "debug_test_fg_spans"}}
    \cup {DeleteCmd(m) : m \in Motions}
    \cup {Move(m, b) : m \in Motions, b \in BOOLEAN}
    \cup {Key(c, 0) : c \in {<<"a">>, KEY_BACKSPACE, KEY_LEFT}}
    \cup {Insert(<<"a">>), RenderLines(0, 1), Open("notes"), Open("missing"),
          Save("notes"), Scroll(i64(0), i64(3)), Click(0, 1, 0), Drag(0, 1, 0)}

\* The editor as render() of line 709 finds it: after the handler and the commit.
AtRender(cmd) == commit_delta(dispatch([ed EXCEPT !.this_edit_type = Other], cmd, kill_ring))

\* C21: dirty is false between calls; in every do_rpc that returns, the update
\* is sent exactly when the handler or the commit set dirty, it is sent with no
\* delta pending and from a text equal to the engine head, neither the text
\* nor the head changes after it in the call, and dirty is false afterwards.
C21_NoStaleRender ==
    ~ed.abort =>
        /\ ~ed.dirty
        /\ \A cmd \in Commands :
              \A e1 \in {AtRender(cmd)}, e2 \in {do_rpc(ed, cmd, kill_ring)} :
                 ~e2.abort =>
                    /\ update_sent(ed, cmd, kill_ring) <=> e1.dirty
                    /\ ~IsSome(e1.delta)
                    /\ e1.text = get_head(e1.engine)
                    /\ e2.text = e1.text
                    /\ get_head(e2.engine) = e1.text
                    /\ ~e2.dirty

\* An undo changes the text and its update is sent from the text after it.
C21_Witness ==
    /\ ~ed.abort
    /\ update_sent(ed, Cmd("undo"), kill_ring)
    /\ AtRender(Cmd("undo")).text # ed.text
    /\ AtRender(Cmd("undo")).text = get_head(AtRender(Cmd("undo")).engine)

\* The editor as commit_delta() of line 708 finds it: after the handler.
AtCommit(cmd) == dispatch([ed EXCEPT !.this_edit_type = Other], cmd, kill_ring)

\* The undo group of the newest revision of the history.
LastGroup(e) == e.engine.revs[Len(e.engine.revs)].undo_group

\* The commit from e0 to e1 went into the top live undo group.
ReusedTop(e0, e1) ==
    /\ e1.live_undos = e0.live_undos
    /\ e1.cur_undo = e0.cur_undo
    /\ e1.undo_group_id = e0.undo_group_id
    /\ LastGroup(e1) = e0.live_undos[Len(e0.live_undos)]

\* The commit from e0 to e1 went into a newly allocated group.
AllocatedFresh(e0, e1) ==
    /\ e1.undo_group_id = e0.undo_group_id + 1
    /\ LastGroup(e1) = e0.undo_group_id
    /\ e1.live_undos # <<>>
    /\ e1.live_undos[Len(e1.live_undos)] = e0.undo_group_id
    /\ e0.undo_group_id \notin Range(e0.live_undos)

InsertCommands == {Insert(<<"a">>), Insert(<<"b">>), Cmd("insert_newline")}
DeleteCommands == {DeleteCmd("prev_char"), DeleteCmd("next_char"),
                   DeleteCmd("start_of_line"), Key(KEY_BACKSPACE, 0)}

\* Both commands of [c1; c2], served from the current state, commit a delta,
\* and the second commit shares the group of the first (share) or not.
PairGroups(c1, c2, share) ==
    \A e1 \in {do_rpc(ed, c1, kill_ring)} :
       \A e2 \in {do_rpc(e1, c2, kill_ring)} :
          (~e2.abort /\ Committed(ed, e1, c1) /\ Committed(e1, e2, c2)) =>
              IF share
              THEN e2.live_undos = e1.live_undos /\ LastGroup(e2) = LastGroup(e1)
              ELSE /\ LastGroup(e2) # LastGroup(e1)
                   /\ LastGroup(e2) = e1.undo_group_id
                   /\ e2.undo_group_id = e1.undo_group_id + 1

\* C22: a commit reuses the top live undo group exactly when this_edit_type
\* equals last_edit_type, is InsertChars or Delete, and live_undos is
\* non-empty, and allocates a fresh group otherwise; consecutive insert and
\* insert_newline commands share a group, consecutive deletes share a group,
\* an insert followed by a delete are two groups, and [insert a; insert b;
\* undo] on a fresh editor restores the empty text.
C22_CoalescingRule ==
    /\ ~ed.abort =>
          /\ \A cmd \in Commands \cup InsertCommands :
                \A e0 \in {AtCommit(cmd)} :
                   \A e1 \in {commit_delta(e0)} :
                      (~e1.abort /\ IsSome(e0.delta)) =>
                          IF /\ e0.this_edit_type = e0.last_edit_type
                             /\ e0.this_edit_type \in {InsertChars, Delete}
                             /\ e0.live_undos # <<>>
                          THEN ReusedTop(e0, e1)
                          ELSE AllocatedFresh(e0, e1)
          /\ \A c1, c2 \in InsertCommands : PairGroups(c1, c2, TRUE)
          /\ \A c1, c2 \in DeleteCommands : PairGroups(c1, c2, TRUE)
          /\ \A c1 \in InsertCommands, c2 \in DeleteCommands : PairGroups(c1, c2, FALSE)
    /\ trace = <<Sent(Insert(<<"a">>)), Sent(Insert(<<"b">>)), Sent(Cmd("undo"))>>
          => ed.text = <<>>

\* The interval of the delta staged in e lies inside the text of e.
StagedInside(e) ==
    IsSome(e.delta) =>
        /\ Unwrap(e.delta).start <= Unwrap(e.delta).end
        /\ Unwrap(e.delta).end <= RopeLen(e.text)

\* C23: between commands sel_start <= text.len() and sel_end <= text.len(),
\* and every delta a command stages has start <= end <= text.len().
C23_SelectionInside ==
    ~ed.abort =>
        /\ ed.sel_start <= RopeLen(ed.text)
        /\ ed.sel_end <= RopeLen(ed.text)
        /\ \A cmd \in Commands : \A e0 \in {AtCommit(cmd)} : ~e0.abort => StagedInside(e0)

\* A step that commits into a fresh group while live_undos holds MAX_UNDOS
\* applied groups.
Evicting ==
    /\ ~ed.abort /\ ~ed'.abort
    /\ Len(ed.live_undos) = MAX_UNDOS
    /\ ed.cur_undo = MAX_UNDOS
    /\ ed'.undo_group_id = ed.undo_group_id + 1

RECURSIVE UndosReached(_, _)
\* The groups found in undos at some point of k undo commands served from e,
\* each command completed before the next is served.
UndosReached(e, k) ==
    IF k = 0 THEN e.undos
    ELSE UNION { e.undos \cup UndosReached(e1, k - 1) :
                 e1 \in {do_rpc(e, Cmd("undo"), <<>>)} }

\* The oldest group of e leaves the history with the step to e2 and is handed
\* to gc; its revisions are no longer in the engine's history (their effect on
\* the text is permanent) and no number of undos brings it into undos.
Evicted(e, e2, calls) ==
    LET g == e.live_undos[1] IN
    /\ g \notin Range(e2.live_undos)
    /\ <<g, FALSE>> \in calls
    /\ g \notin GroupsOf(e2.engine)
    /\ e2.text = get_head(e2.engine)
    /\ g \notin UndosReached(e2, MAX_UNDOS)
    /\ Len(e2.live_undos) = MAX_UNDOS
    /\ e2.cur_undo = MAX_UNDOS

\* C24 as claimed: at the eviction the oldest group is removed and handed to
\* gc, and live_undos then holds the MAX_UNDOS most recently allocated groups
\* in allocation order.
C24_EvictionKeepsNewestAllocated ==
    [][Evicting =>
         /\ Evicted(ed, ed', gc_calls' \ gc_calls)
         /\ ed'.live_undos =
               [i \in 1..MAX_UNDOS |-> ed'.undo_group_id - MAX_UNDOS + i - 1]]_vars

\* C24, amended: at the eviction the oldest group is removed and handed to
\* gc, and live_undos then holds the other groups it held before, followed by
\* the new group: MAX_UNDOS groups in allocation order (groups of a discarded
\* redo tail, though allocated later than the oldest kept ones, are absent).
C24_Eviction ==
    [][Evicting =>
         /\ Evicted(ed, ed', gc_calls' \ gc_calls)
         /\ ed'.live_undos = Append(Tail(ed.live_undos), ed.undo_group_id)
         /\ \A i \in 1..(MAX_UNDOS - 1) : ed'.live_undos[i] < ed'.live_undos[i + 1]]_vars

\* After [undo; key; key; key] from the warm state: group 0 was evicted, group
\* 18 was discarded with the redo tail, live_undos is full.
C24_Witness ==
    /\ ~ed.abort
    /\ Len(ed.live_undos) = MAX_UNDOS
    /\ ed.cur_undo = MAX_UNDOS
    /\ ed.live_undos[1] = 1
    /\ ed.undo_group_id = WarmLen + MaxEvictEdits
    /\ (WarmLen - 1) \notin Range(ed.live_undos)
    /\ <<0, FALSE>> \in gc_calls

\* The groups of live_undos from index cur_undo on (0-based): the undone ones.
UndoneTail(e) == {e.live_undos[i] : i \in (e.cur_undo + 1)..Len(e.live_undos)}

NoDuplicates(seq) == \A i, j \in 1..Len(seq) : seq[i] = seq[j] => i = j

\* C25: after every do_rpc undos = { live_undos[i] : i >= cur_undo } and
\* live_undos has no duplicate entries, and neither the assertion of do_undo
\* nor that of do_redo fails in a following undo or redo.
C25_UndosIsTail ==
    ~ed.abort =>
        /\ ed.undos = UndoneTail(ed)
        /\ NoDuplicates(ed.live_undos)
        /\ ~do_rpc(ed, Cmd("undo"), kill_ring).abort
        /\ ~do_rpc(ed, Cmd("redo"), kill_ring).abort

\* C26: whenever commit_delta reuses live_undos.last() as the undo group,
\* cur_undo = live_undos.len() at that moment and the reused group is not in
\* undos; between commands, an edit type that allows coalescing is only left
\* behind with no group undone.
C26_NoCoalesceIntoUndone ==
    ~ed.abort =>
        /\ \A cmd \in Commands \cup InsertCommands :
              \A e0 \in {AtCommit(cmd)} :
                 (~e0.abort /\ IsSome(e0.delta) /\ coalesces(e0)) =>
                     /\ e0.cur_undo = Len(e0.live_undos)
                     /\ e0.live_undos[Len(e0.live_undos)] \notin e0.undos
        /\ (ed.last_edit_type \in {InsertChars, Delete} /\ ed.live_undos # <<>>)
              => ed.cur_undo = Len(ed.live_undos)

\* After [insert a; insert a]: the second commit reused group 0, and a third
\* insert would reuse it again.
C26_Witness ==
    /\ ~ed.abort
    /\ Len(ed.engine.revs) = 2
    /\ ed.engine.revs[1].undo_group = ed.engine.revs[2].undo_group
    /\ ed.live_undos = <<ed.engine.revs[2].undo_group>>
    /\ coalesces(AtCommit(Insert(<<"a">>)))

EditTypes == {Other, Select, InsertChars, Delete}

\* C27: a render_lines request leaves last_edit_type, text, selection, engine
\* and undo bookkeeping as they were and sends no update; [insert a;
\* render_lines; insert b] on a fresh editor forms a single undo group; after
\* any other command last_edit_type does not depend on what it was before.
C27_RenderLinesKeepsGroup ==
    /\ ~ed.abort =>
          /\ \A r \in {do_rpc(ed, RenderLines(0, 1), kill_ring)} :
                /\ ~r.abort
                /\ r.last_edit_type = ed.last_edit_type
                /\ r.text = ed.text
                /\ r.sel_start = ed.sel_start /\ r.sel_end = ed.sel_end
                /\ r.engine = ed.engine
                /\ SameUndoState(r, ed)
                /\ r.undo_group_id = ed.undo_group_id
                /\ ~update_sent(ed, RenderLines(0, 1), kill_ring)
          /\ \A cmd \in (Commands \cup InsertCommands) \ {RenderLines(0, 1)} :
                \A t \in EditTypes :
                   \A r \in {do_rpc(ed, cmd, kill_ring)},
                      rt \in {do_rpc([ed EXCEPT !.last_edit_type = t], cmd, kill_ring)} :
                      (~r.abort /\ ~rt.abort) => rt.last_edit_type = r.last_edit_type
    /\ trace = <<Sent(Insert(<<"a">>)), Sent(RenderLines(0, 1)), Sent(Insert(<<"b">>))>>
          => /\ ed.live_undos = <<0>>
             /\ ed.undo_group_id = 1
             /\ GroupsOf(ed.engine) = {0}

\* After [insert a; render_lines; insert b]: both inserts are in the text and in
\* one group.
C27_Witness ==
    /\ trace = <<Sent(Insert(<<"a">>)), Sent(RenderLines(0, 1)), Sent(Insert(<<"b">>))>>
    /\ ed.text = <<"a", "b">>
    /\ Len(ed.engine.revs) = 2
    /\ ed.live_undos = <<0>>

\* t without the bytes of [start, end).
Without(t, start, end) == SubSeq(t, 1, start) \o SubSeq(t, end + 1, Len(t))

\* C28: forward delete with an empty selection at p < text.len() removes
\* exactly the bytes [p, next_grapheme_offset(p)) and leaves the cursor at p
\* with an empty selection; at p = text.len() it stages no delta.
C28_DeleteForward ==
    (~ed.abort /\ ed.sel_start = ed.sel_end /\ ed.sel_end <= RopeLen(ed.text)) =>
        \A r \in {do_rpc(ed, DeleteCmd("next_char"), kill_ring)} :
           IF ed.sel_end < RopeLen(ed.text)
           THEN /\ ~r.abort
                /\ r.text = Without(ed.text, ed.sel_end,
                                    Unwrap(next_grapheme_offset(ed.text, ed.sel_end)))
                /\ r.sel_start = ed.sel_end
                /\ r.sel_end = ed.sel_end
           ELSE /\ ~r.abort
                /\ ~IsSome(AtCommit(DeleteCmd("next_char")).delta)
                /\ r.text = ed.text

\* Offset of the start of the line the cursor of e is on.
LineStart(e) == offset_of_line(e.text, line_of_offset(e.text, e.sel_end))

\* C29: delete start_of_line with an empty selection removes exactly the bytes
\* between the start of the cursor's line and the cursor and leaves the cursor
\* at the line start; with the cursor already at the line start it stages
\* nothing and the text is unchanged.
C29_DeleteToLineStart ==
    (~ed.abort /\ ed.sel_start = ed.sel_end /\ ed.sel_end <= RopeLen(ed.text)) =>
        \A r \in {do_rpc(ed, DeleteCmd("start_of_line"), kill_ring)} :
           /\ ~r.abort
           /\ r.text = Without(ed.text, LineStart(ed), ed.sel_end)
           /\ r.sel_end = LineStart(ed)
           /\ r.sel_start = r.sel_end \/ r.text = ed.text
           /\ ed.sel_end = LineStart(ed) =>
                 ~IsSome(AtCommit(DeleteCmd("start_of_line")).delta)

\* The end of the line the cursor of e is on: the first offset from the cursor
\* on that is followed by a newline or is the document end.
LineEnd(e) ==
    CHOOSE off \in e.sel_end..Len(e.text) :
        /\ off = Len(e.text) \/ e.text[off + 1] = NL
        /\ \A k \in (e.sel_end + 1)..off : e.text[k] # NL

\* C30: after move end_of_line the cursor is on the line it was on, immediately
\* before that line's terminating newline, or at the document end when the
\* line is the last one.
C30_MoveToLineEnd ==
    (~ed.abort /\ ed.sel_end <= RopeLen(ed.text)) =>
        \A modify \in BOOLEAN :
           \A r \in {do_rpc(ed, Move("end_of_line", modify), kill_ring)} :
              /\ ~r.abort
              /\ r.text = ed.text
              /\ r.sel_end = LineEnd(ed)
              /\ line_of_offset(r.text, r.sel_end) = line_of_offset(ed.text, ed.sel_end)

\* The commands that stage a delta: inserts, yank, the implemented deletes,
\* cut and transpose.
EditingCommands ==
    InsertCommands \cup DeleteCommands
        \cup {Key(<<"a">>, 0), Key(KEY_RETURN, 0), Cmd("yank"), Cmd("cut"), Cmd("transpose")}

KillRings == {<<>>, <<"b">>, <<"a", NL>>}

\* The command served from the current state with kill ring kr returns, and
\* if it staged a delta the selection is empty afterwards, at the new_cursor
\* staged with the delta.
CursorAtStaged(cmd, kr) ==
    \A e0 \in {dispatch([ed EXCEPT !.this_edit_type = Other], cmd, kr)} :
       \A r \in {do_rpc(ed, cmd, kr)} :
          /\ ~r.abort
          /\ IsSome(e0.delta) =>
                /\ IsSome(e0.new_cursor)
                /\ r.sel_start = Unwrap(e0.new_cursor)
                /\ r.sel_end = Unwrap(e0.new_cursor)

\* The command, which inserts s at the selection, leaves
\* text[0, sel_min) + s + text[sel_max, len) and the cursor at sel_min + len(s).
Inserted(cmd, kr, s) ==
    \A r \in {do_rpc(ed, cmd, kr)} :
       /\ ~r.abort
       /\ r.text = SubSeq(ed.text, 1, sel_min(ed)) \o s
                      \o SubSeq(ed.text, sel_max(ed) + 1, Len(ed.text))
       /\ r.sel_start = sel_min(ed) + Len(s)
       /\ r.sel_end = sel_min(ed) + Len(s)

\* C31: an insert of s over the selection [sel_min, sel_max) yields
\* text[0, sel_min) + s + text[sel_max, len) with the cursor at sel_min +
\* len(s) (insert, ordinary key, insert_newline, yank); after any committed
\* delta (insert, yank, delete, cut, transpose) the selection is empty at the
\* staged new_cursor.
C31_InsertAndCursor ==
    ~ed.abort =>
        /\ \A s \in {<<"a">>, <<"a", "b">>, <<>>} : Inserted(Insert(s), kill_ring, s)
        /\ Inserted(Key(<<"a">>, 0), kill_ring, <<"a">>)
        /\ Inserted(Cmd("insert_newline"), kill_ring, <<NL>>)
        /\ \A kr \in KillRings : Inserted(Cmd("yank"), kr, kr)
        /\ \A cmd \in EditingCommands, kr \in KillRings : CursorAtStaged(cmd, kr)

\* The command returns having removed exactly the bytes of [start, end), with
\* the cursor at start and an empty selection.
Removed(cmd, start, end) ==
    \A r \in {do_rpc(ed, cmd, kill_ring)} :
       /\ ~r.abort
       /\ r.text = Without(ed.text, start, end)
       /\ r.sel_start = start
       /\ r.sel_end = start

\* C32: delete prev_char (and the backspace key) with a non-empty selection
\* removes exactly [sel_min, sel_max) and puts the cursor at sel_min; with an
\* empty selection at p > 0 it removes exactly the code point ending at p and
\* puts the cursor at its start; at p = 0 it stages nothing and the edit type
\* stays Other.
C32_Backspace ==
    ~ed.abort =>
        \A cmd \in {DeleteCmd("prev_char"), Key(KEY_BACKSPACE, 0)} :
           IF ed.sel_start # ed.sel_end THEN Removed(cmd, sel_min(ed), sel_max(ed))
           ELSE IF ed.sel_end > 0 THEN Removed(cmd, ed.sel_end - 1, ed.sel_end)
           ELSE /\ StagesNothing(cmd)
                /\ AtCommit(cmd).this_edit_type = Other
                /\ do_rpc(ed, cmd, kill_ring).last_edit_type = Other

\* The commands that extend the selection: a move with modify_selection, the
\* selecting page motions, a click with the select flag, a drag.
SelectingCommands ==
    {Move(m, TRUE) : m \in Motions}
        \cup {Cmd("page_up_and_modify_selection"), Cmd("page_down_and_modify_selection")}
        \cup {Click(l, c, f) : l \in 0..2, c \in 0..2, f \in {FLAG_SELECT, FLAG_SELECT + 1}}
        \cup {Drag(l, c, f) : l \in 0..2, c \in 0..2, f \in {0, FLAG_SELECT}}

\* The same motions without the select flag.
PlainMotionCommands ==
    {Move(m, FALSE) : m \in Motions}
        \cup {Cmd("scroll_page_up"), Cmd("scroll_page_down")}
        \cup {Click(l, c, f) : l \in 0..2, c \in 0..2, f \in {0, 1}}

\* C33: a move with modify_selection, page_up/page_down_and_modify_selection,
\* a click with the select flag and a drag leave sel_start and the text as
\* they were (only the sel_end side of the selection moves); a move, page
\* scroll or click without the select flag ends with sel_start = sel_end and
\* the text as it was.
C33_SelectionAnchor ==
    ~ed.abort =>
        /\ \A cmd \in SelectingCommands :
              \A r \in {do_rpc(ed, cmd, kill_ring)} :
                 /\ ~r.abort
                 /\ r.sel_start = ed.sel_start
                 /\ r.text = ed.text
                 /\ r.engine = ed.engine
        /\ \A cmd \in PlainMotionCommands :
              \A r \in {do_rpc(ed, cmd, kill_ring)} :
                 /\ ~r.abort
                 /\ r.sel_start = r.sel_end
                 /\ r.text = ed.text
                 /\ r.engine = ed.engine

\* A selection is live; extending it to the left moves sel_end and keeps the
\* anchor, a plain move to the left collapses it to sel_min.
C33_Witness ==
    /\ ~ed.abort
    /\ ed.sel_start < ed.sel_end
    /\ ed.sel_end <= RopeLen(ed.text)
    /\ do_rpc(ed, Move("prev_char", TRUE), kill_ring).sel_end = ed.sel_end - 1
    /\ do_rpc(ed, Move("prev_char", TRUE), kill_ring).sel_start = ed.sel_start
    /\ do_rpc(ed, Move("prev_char", FALSE), kill_ring).sel_end = ed.sel_start
====
